---- MODULE Spec2Model ----
(***************************************************************************)
(* Verification model of erayakt/BisonHacks2026.                           *)
(*                                                                         *)
(*   Computer/main_window.py          speech channel (MainWindow.speak)    *)
(*   RaspberryPi/inputs/mouse_input.py  position integrator (MouseInput)   *)
(*   RaspberryPi/network/ws_client.py   producer endpoint (WebSocketClient)*)
(*   Computer/network/ws_server.py      receiver endpoint                  *)
(*   RaspberryPi/main.py                grid cell resolver (cell_from_xy)  *)
(*   RaspberryPi/outputs/audio_output.py  looping feedback channel         *)
(*   RaspberryPi/main.py                grid lookup and main loop          *)
(*   Computer/controllers/app_controller.py  choice selection              *)
(*                                                                         *)
(* Each component has its own specification (SpecSpeech, SpecMouse, ...)   *)
(* over the shared variable tuple; a component's actions leave the other   *)
(* components' variables unchanged.                                        *)
(***************************************************************************)
EXTENDS Integers, Sequences, FiniteSets, TLC

\* ------------------------------------------------------------------------
\* Bounds of the model
\* ------------------------------------------------------------------------
\* number of accepted speak() calls (= speech worker threads) explored
MaxSpeak == 3
\* number of Ctrl+T toggles explored
MaxToggle == 2
\* number of threads that call speak(): the Qt main thread (1) and LLM
\* describe-crop worker threads (main_window.py:384-390)
MaxCallers == 2
\* send queue capacity and number of send_json calls explored together with
\* connection faults (SpecClient)
QueueCap == 2
MaxSend == 4
\* number of connection faults (peer close, network error) explored
MaxFaults == 2
\* number of send_json calls beyond the real capacity explored (SpecQueue)
MaxOverflow == 1
\* number of inbound connections explored at the Receiver
MaxConns == 2
\* number of loop worker threads (accepted start() calls) explored
MaxLoopStarts == 2

VARIABLES
    \* --- MainWindow TTS state (main_window.py:37-43) ---
    tts_enabled,      \* self._tts_enabled
    tts_generation,   \* self._tts_generation
    eleven_client,    \* self._eleven_client is not None
    pygame_ready,     \* self._pygame_ready
    api_key,          \* os.getenv("ELEVENLABS_API_KEY") is set
    music_loaded,     \* pygame.mixer.music: utterance loaded (0 = none)
    music_playing,    \* pygame.mixer.music: utterance audible (0 = none)
    workers,          \* speech worker threads, one per accepted utterance:
                      \* pc, captured gen, and the history fields late (a
                      \* newer generation existed when synthesis completed)
                      \* and started (this worker started playback)
    callerPc,         \* position of each thread inside speak()/_toggle_tts()
    nSpoken,          \* number of accepted speak() calls so far
    nToggles,         \* number of _toggle_tts() calls so far
    playLog,          \* history: utterances whose playback was started
    staleStart,       \* history: some playback started with a stale generation
    anyFail,          \* history: some worker step raised
    rejected,         \* history: the step just taken was a speak() call that
                      \* returned at line 207 ("disabled") or 211 ("empty");
                      \* "none" after every other step
    speakOverlap,     \* history: some speak() call took the lock while
                      \* another thread was inside speak() or _toggle_tts()
    \* --- MouseInput state (mouse_input.py:16-34) ---
    mouse_x,          \* self._x
    mouse_y,          \* self._y
    mouse_moved,      \* self._moved
    mouse_dev,        \* self._dev: "none", "open", or "dead" (open handle of
                      \* a device that has gone away)
    mouse_stop,       \* self._stop_event is set
    mousePc,          \* position of the input thread in _run
    devState,         \* environment: state of the evdev device node
    mutSince,         \* history: a mutation happened since the last is_moved()
    polled,           \* history: is_moved() has been called
    isMovedRet,       \* history: value returned by the last is_moved()
    isMovedExp,       \* history: mutSince at the time of the last is_moved()
    clampedLast,      \* history: the last mutation's raw value was out of bounds
    recovery,         \* history: "none" (no read failure yet), "failed" (the
                      \* last read or open failed), "reopened" (the device
                      \* was opened after a failure), "integrated" (a delta
                      \* was integrated after that)
    \* --- MouseInput._lock and the threads using it (mouse_input.py:19) ---
    pos_lock,         \* self._lock: the set of threads holding it
    posPc,            \* per thread, its position inside its with-block:
                      \* "idle", "locked" (lock taken), "x_done" (self._x
                      \* stored or loaded, self._y not yet)
    posNew,           \* per writing thread, the clamped pair it is storing
                      \* and whether clamping changed it
    getX,             \* the getter's loaded self._x and the number of the
                      \* mutation that stored it
    posRet,           \* what the last get_absolute_position returned, with
                      \* the numbers of the mutations that stored its x and y
    mutNo,            \* history: number of mutations begun so far
    xStamp,           \* history: number of the mutation that stored self._x
    yStamp,           \* history: number of the mutation that stored self._y
    posLog,           \* history: the position after each completed mutation
    \* --- WebSocketClient state (ws_client.py:32-39) ---
    send_q,           \* self._send_q: queued messages (enqueue sequence numbers)
    q_maxsize,        \* self._send_q.maxsize
    ws_stop,          \* self._stop is set
    is_connected,     \* self.is_connected
    runPc,            \* self._task: position of _run ("none" = no task)
    consumerSt,       \* the _consume_incoming task of the current connection
    producerSt,       \* the _produce_outgoing task of the current connection
    inflight,         \* msg taken by _produce_outgoing, not yet written (-1 = none)
    linkSt,           \* the websocket: "none", "open", "closed_ok", "broken"
    serverUp,         \* environment: the server accepts connections
    nSent,            \* number of send_json calls so far
    nFaults,          \* number of connection faults injected so far
    lastWritten,      \* history: last message written to the socket (-1 = none)
    written,          \* history: the messages written to the socket, in order
    drained,          \* history: some message has been taken from the queue
    hadFailure,       \* history: some connection attempt has failed
    sentAfterStop,    \* history: send_json was called after a stop()
    \* --- AppController state (app_controller.py:30-39, models/state.py) ---
    choices,          \* self.state.choices
    choosing,         \* self._choosing
    highlighted_index,\* self._highlighted_index
    chosen_index,     \* self._chosen_index: <<>> for None, else <<index>>
    lastOp,           \* history: the last call, its argument and
                      \* self._highlighted_index before it
    \* --- WebSocketPositionServer state (ws_server.py:30-42) ---
    srvPc,            \* the server thread (self._thread): "none", "starting"
                      \* (started, no loop yet), "created" (loop created, not
                      \* running), "serving", "closing" (leaving the async
                      \* with of _serve), "ended"
    srv_stop_evt,     \* self._stop_evt is set
    srv_loop,         \* self._loop: "none", "open", "closed"
    loopStopReq,      \* loop.stop has been scheduled on self._loop
    connSt,           \* per inbound connection: "none", "open", "ending" (the
                      \* connection is closed, its handler has not resumed
                      \* yet), "closed" (handler returned), "abandoned"
                      \* (handler suspended in a loop that was stopped)
    stateLog,         \* history: per connection, the flags passed to
                      \* on_client_state by its handler, in call order
    handled,          \* history: the record handled last and what it caused
    \* --- RaspberryPi main loop (main.py:197-237) ---
    cell_args,        \* the arguments <<x, y, w, h>> of cell_from_xy
    cell_ret,         \* what cell_from_xy returned for them (NoCell = not yet)
    \* --- RaspberryPi startup and score lookup (main.py:131-136, 223) ---
    analysis,         \* environment: the analysis result and FACTOR_INDEX
    grid_map,         \* the score table in use (empty before startup)
    lookPc,           \* "startup" (before line 132) or "loop" (main loop)
    look,             \* the last lookup: its cell, whether int(...) raised,
                      \* and the level
    \* --- RaspberryPi main loop, rate limit (main.py:197-237) ---
    sinceSent,        \* now - last_sent at the next iteration, in
                      \* microseconds, counted up to the minimum interval
    lastEnq,          \* the last mouse_pos message handed to send_json
    nMoves,           \* history: number of changes of the position so far
    sentMoves,        \* history: nMoves when lastEnq was read (the changes
                      \* its position reflects)
    \* --- LoopingWavOutput state (audio_output.py:347-360) ---
    loop_gain,        \* self._gain, in units of 1/100000
    last_mixer_vol,   \* self._last_mixer_vol (-1 = None)
    has_mixer,        \* self._mixer is not None
    level_args,       \* history: the arguments of the last set_level call
    loop_thread,      \* self._thread: 0 = None, else the worker it refers to
    loop_stop_event,  \* self._stop_event is set
    lworkers,         \* the loop worker threads: "unborn", "opening" (up to
                      \* the while loop), "writing" (sink open, in the while
                      \* loop), "returned" or "raised" (ended, sink closed)
    loopOp,           \* the call in progress on the channel: "none", "start",
                      \* "stop"
    loopPc,           \* its position: "idle", "stop_enter", "join",
                      \* "stop_tail", "locked"
    nLoopWorkers,     \* number of loop workers created so far
    loop_stopped,     \* history: stop() has returned and start() has not been
                      \* called since
    mixerCall,        \* history: whether the last set_level called
                      \* mixer.setvolume, and self._last_mixer_vol before it
    wavFrames,        \* environment: number of frames of the WAV source
    loop_pos,         \* per loop worker: the read position of its wave reader
    lastWrite         \* history: the last pcm.write: worker, first frame,
                      \* number of frames, and whether it was silence

speechVars == <<tts_enabled, tts_generation, eleven_client, pygame_ready,
                api_key, music_loaded, music_playing, workers, callerPc,
                nSpoken, nToggles, playLog, staleStart, anyFail, rejected,
                speakOverlap>>

mouseVars == <<mouse_x, mouse_y, mouse_moved, mouse_dev, mouse_stop, mousePc,
               devState, mutSince, polled, isMovedRet, isMovedExp, clampedLast,
               recovery>>

posVars == <<pos_lock, posPc, posNew, getX, posRet, mutNo, xStamp, yStamp,
             posLog>>

clientVars == <<send_q, q_maxsize, ws_stop, is_connected, runPc, consumerSt,
                producerSt, inflight, linkSt, serverUp, nSent, nFaults,
                lastWritten, written, drained, hadFailure, sentAfterStop>>

serverVars == <<srvPc, srv_stop_evt, srv_loop, loopStopReq, connSt, stateLog,
                handled>>

cellVars == <<cell_args, cell_ret>>

lookupVars == <<analysis, grid_map, lookPc, look>>

mainVars == <<sinceSent, lastEnq, nMoves, sentMoves>>

ctrlVars == <<choices, choosing, highlighted_index, chosen_index, lastOp>>

loopVars == <<loop_gain, last_mixer_vol, has_mixer, level_args, loop_thread,
              loop_stop_event, lworkers, loopOp, loopPc, nLoopWorkers,
              loop_stopped, mixerCall, wavFrames, loop_pos, lastWrite>>

vars == <<speechVars, mouseVars, posVars, clientVars, serverVars, cellVars,
          lookupVars, mainVars, ctrlVars, loopVars>>

\* the variables of the other components, left unchanged by a component
notSpeech == <<mouseVars, posVars, clientVars, serverVars, cellVars,
               lookupVars, mainVars, ctrlVars, loopVars>>
notMouse == <<speechVars, posVars, clientVars, serverVars, cellVars,
              lookupVars, mainVars, ctrlVars, loopVars>>
notClient == <<speechVars, mouseVars, posVars, serverVars, cellVars,
               lookupVars, mainVars, ctrlVars, loopVars>>
notServer == <<speechVars, mouseVars, posVars, clientVars, cellVars,
               lookupVars, mainVars, ctrlVars, loopVars>>
notCell == <<speechVars, mouseVars, posVars, clientVars, serverVars,
             lookupVars, mainVars, ctrlVars, loopVars>>
notLoop == <<speechVars, mouseVars, posVars, clientVars, serverVars,
             cellVars, lookupVars, mainVars, ctrlVars>>
\* the variables outside MouseInput
notInput == <<speechVars, clientVars, serverVars, cellVars, lookupVars,
              mainVars, ctrlVars, loopVars>>
notLookup == <<speechVars, mouseVars, posVars, clientVars, serverVars,
               cellVars, mainVars, ctrlVars, loopVars>>

\* ------------------------------------------------------------------------
\* Speech channel: Computer/main_window.py
\* ------------------------------------------------------------------------
Utterances == 1..MaxSpeak
Callers == 1..MaxCallers
MainThread == 1

\* texts handed to speak(); Strip models (text or "").strip()
Texts == {"", "  ", "Mode: RUNNING"}
Strip(t) == IF t \in {"", "  "} THEN "" ELSE t

WorkerPcs == {"none", "check1", "client", "pygame", "convert", "check2",
              "load", "play", "done"}

InitSpeech ==
    /\ tts_enabled = TRUE
    /\ tts_generation = 0
    /\ eleven_client = FALSE
    /\ pygame_ready = FALSE
    /\ api_key \in BOOLEAN
    /\ music_loaded = 0
    /\ music_playing = 0
    /\ workers = [u \in Utterances |->
                    [pc |-> "none", gen |-> 0, late |-> FALSE, started |-> FALSE]]
    /\ callerPc = [c \in Callers |-> "idle"]
    /\ nSpoken = 0
    /\ nToggles = 0
    /\ playLog = <<>>
    /\ staleStart = FALSE
    /\ anyFail = FALSE
    /\ rejected = "none"
    /\ speakOverlap = FALSE

\* _stop_audio_locked: the value of music_playing after the call
StopAudioLocked == IF ~pygame_ready THEN music_playing ELSE 0

\* speak() with the empty-text test of lines 209-211 left out
SpeakEnter_NoTextTest(c, text) ==
    /\ callerPc[c] = "idle"
    /\ nSpoken < MaxSpeak
    /\ IF ~tts_enabled
       THEN /\ rejected' = "disabled"
            /\ UNCHANGED callerPc
       ELSE /\ rejected' = IF Strip(text) = "" THEN "empty" ELSE "none"
            /\ callerPc' = [callerPc EXCEPT ![c] = "speak_lock"]
    /\ UNCHANGED speakOverlap
    /\ UNCHANGED <<tts_enabled, tts_generation, eleven_client, pygame_ready,
                   api_key, music_loaded, music_playing, workers,
                   nSpoken, nToggles, playLog, staleStart, anyFail>>
    /\ UNCHANGED notSpeech

\* speak(), lines 206-211: the enabled test and the empty-text test,
\* both made before the lock is taken
SpeakEnter(c, text) ==
    /\ callerPc[c] = "idle"
    /\ nSpoken < MaxSpeak
    /\ IF ~tts_enabled
       THEN /\ rejected' = "disabled"
            /\ UNCHANGED callerPc
       ELSE IF Strip(text) = ""
       THEN /\ rejected' = "empty"
            /\ UNCHANGED callerPc
       ELSE /\ rejected' = "none"
            /\ callerPc' = [callerPc EXCEPT ![c] = "speak_lock"]
    /\ UNCHANGED speakOverlap
    /\ UNCHANGED <<tts_enabled, tts_generation, eleven_client, pygame_ready,
                   api_key, music_loaded, music_playing, workers,
                   nSpoken, nToggles, playLog, staleStart, anyFail>>
    /\ UNCHANGED notSpeech

\* speak(), lines 214-218 and 263: under the lock increment the generation,
\* capture it, hard-stop the audio; then start the worker thread
SpeakLocked(c) ==
    /\ callerPc[c] = "speak_lock"
    /\ nSpoken < MaxSpeak
    /\ tts_generation' = tts_generation + 1
    /\ music_playing' = (IF pygame_ready THEN StopAudioLocked ELSE music_playing)
    /\ nSpoken' = nSpoken + 1
    /\ workers' = [workers EXCEPT ![nSpoken + 1] =
                      [pc |-> "check1", gen |-> tts_generation + 1,
                       late |-> FALSE, started |-> FALSE]]
    /\ callerPc' = [callerPc EXCEPT ![c] = "idle"]
    /\ speakOverlap' =
          (speakOverlap \/ \E d \in Callers \ {c} : callerPc[d] # "idle")
    /\ rejected' = "none"
    /\ UNCHANGED <<tts_enabled, eleven_client, pygame_ready, api_key,
                   music_loaded, nToggles, playLog, staleStart, anyFail>>
    /\ UNCHANGED notSpeech

\* _toggle_tts, line 266: flip the flag (Qt main thread)
ToggleFlip ==
    /\ callerPc[MainThread] = "idle"
    /\ nToggles < MaxToggle
    /\ tts_enabled' = ~tts_enabled
    /\ nToggles' = nToggles + 1
    /\ callerPc' = [callerPc EXCEPT ![MainThread] =
                       IF tts_enabled THEN "toggle_lock" ELSE "idle"]
    /\ UNCHANGED <<tts_generation, eleven_client, pygame_ready, api_key,
                   music_loaded, music_playing, workers, nSpoken, playLog,
                   staleStart, anyFail>>
    /\ rejected' = "none"
    /\ UNCHANGED speakOverlap
    /\ UNCHANGED notSpeech

\* _toggle_tts on disable, stopping the audio without the increment
ToggleLocked_NoBump ==
    /\ callerPc[MainThread] = "toggle_lock"
    /\ music_playing' = StopAudioLocked
    /\ callerPc' = [callerPc EXCEPT ![MainThread] = "idle"]
    /\ rejected' = "none"
    /\ UNCHANGED speakOverlap
    /\ UNCHANGED <<tts_enabled, tts_generation, eleven_client, pygame_ready,
                   api_key, music_loaded, workers, nSpoken, nToggles, playLog,
                   staleStart, anyFail>>
    /\ UNCHANGED notSpeech

\* _toggle_tts, lines 267-270: on disable, bump the generation and stop
ToggleLocked ==
    /\ callerPc[MainThread] = "toggle_lock"
    /\ tts_generation' = tts_generation + 1
    /\ music_playing' = StopAudioLocked
    /\ callerPc' = [callerPc EXCEPT ![MainThread] = "idle"]
    /\ UNCHANGED <<tts_enabled, eleven_client, pygame_ready, api_key,
                   music_loaded, workers, nSpoken, nToggles, playLog,
                   staleStart, anyFail>>
    /\ rejected' = "none"
    /\ UNCHANGED speakOverlap
    /\ UNCHANGED notSpeech

SetPc(u, p) == workers' = [workers EXCEPT ![u].pc = p]

\* _worker, lines 222-224: first staleness check under the lock
WorkerCheck1(u) ==
    /\ workers[u].pc = "check1"
    /\ SetPc(u, IF workers[u].gen # tts_generation THEN "done" ELSE "client")
    /\ UNCHANGED <<tts_enabled, tts_generation, eleven_client, pygame_ready,
                   api_key, music_loaded, music_playing, callerPc, nSpoken,
                   nToggles, playLog, staleStart, anyFail>>
    /\ rejected' = "none"
    /\ UNCHANGED speakOverlap
    /\ UNCHANGED notSpeech

\* _get_eleven_client, lines 150-167, and the test of lines 226-228
WorkerGetClient(u) ==
    /\ workers[u].pc = "client"
    /\ \/ /\ eleven_client
          /\ SetPc(u, "pygame")
          /\ UNCHANGED <<tts_enabled, eleven_client, anyFail>>
       \/ /\ ~eleven_client /\ ~api_key
          /\ tts_enabled' = FALSE
          /\ SetPc(u, "done")
          /\ anyFail' = TRUE
          /\ UNCHANGED eleven_client
       \/ /\ ~eleven_client /\ api_key
          /\ eleven_client' = TRUE
          /\ SetPc(u, "pygame")
          /\ UNCHANGED <<tts_enabled, anyFail>>
       \/ /\ ~eleven_client /\ api_key      \* constructing the client raised
          /\ tts_enabled' = FALSE
          /\ SetPc(u, "done")
          /\ anyFail' = TRUE
          /\ UNCHANGED eleven_client
    /\ UNCHANGED <<tts_generation, pygame_ready, api_key, music_loaded,
                   music_playing, callerPc, nSpoken, nToggles, playLog,
                   staleStart>>
    /\ rejected' = "none"
    /\ UNCHANGED speakOverlap
    /\ UNCHANGED notSpeech

\* _ensure_pygame_audio, lines 169-185, and the test of lines 230-231
WorkerEnsurePygame(u) ==
    /\ workers[u].pc = "pygame"
    /\ \/ /\ pygame_ready
          /\ SetPc(u, "convert")
          /\ UNCHANGED <<tts_enabled, pygame_ready, anyFail>>
       \/ /\ ~pygame_ready
          /\ pygame_ready' = TRUE
          /\ SetPc(u, "convert")
          /\ UNCHANGED <<tts_enabled, anyFail>>
       \/ /\ ~pygame_ready                    \* pygame.mixer.init() raised
          /\ tts_enabled' = FALSE
          /\ SetPc(u, "done")
          /\ anyFail' = TRUE
          /\ UNCHANGED pygame_ready
    /\ UNCHANGED <<tts_generation, eleven_client, api_key, music_loaded,
                   music_playing, callerPc, nSpoken, nToggles, playLog,
                   staleStart>>
    /\ rejected' = "none"
    /\ UNCHANGED speakOverlap
    /\ UNCHANGED notSpeech

\* _worker, lines 233-244: the synthesis call; an exception is caught at 260
WorkerConvert(u) ==
    /\ workers[u].pc = "convert"
    /\ \/ /\ workers' = [workers EXCEPT ![u].pc = "check2",
                 ![u].late = (workers[u].gen # tts_generation)]
          /\ UNCHANGED anyFail
       \/ /\ SetPc(u, "done")
          /\ anyFail' = TRUE
    /\ UNCHANGED <<tts_enabled, tts_generation, eleven_client, pygame_ready,
                   api_key, music_loaded, music_playing, callerPc, nSpoken,
                   nToggles, playLog, staleStart>>
    /\ rejected' = "none"
    /\ UNCHANGED speakOverlap
    /\ UNCHANGED notSpeech

\* _worker, lines 247-250: second staleness check and hard stop, under the lock
WorkerCheck2(u) ==
    /\ workers[u].pc = "check2"
    /\ IF workers[u].gen # tts_generation
       THEN /\ SetPc(u, "done")
            /\ UNCHANGED music_playing
       ELSE /\ SetPc(u, "load")
            /\ music_playing' = StopAudioLocked
    /\ UNCHANGED <<tts_enabled, tts_generation, eleven_client, pygame_ready,
                   api_key, music_loaded, callerPc, nSpoken, nToggles,
                   playLog, staleStart, anyFail>>
    /\ rejected' = "none"
    /\ UNCHANGED speakOverlap
    /\ UNCHANGED notSpeech

\* _worker, lines 256-257: pygame.mixer.music.load, outside the lock; load
\* replaces the loaded stream and stops the one that is playing
WorkerLoad(u) ==
    /\ workers[u].pc = "load"
    /\ \/ /\ music_loaded' = u
          /\ music_playing' = 0
          /\ SetPc(u, "play")
          /\ UNCHANGED anyFail
       \/ /\ SetPc(u, "done")              \* load raised, caught at line 260
          /\ anyFail' = TRUE
          /\ UNCHANGED <<music_loaded, music_playing>>
    /\ UNCHANGED <<tts_enabled, tts_generation, eleven_client, pygame_ready,
                   api_key, callerPc, nSpoken, nToggles, playLog, staleStart>>
    /\ rejected' = "none"
    /\ UNCHANGED speakOverlap
    /\ UNCHANGED notSpeech

\* _worker, line 258: pygame.mixer.music.play, outside the lock; play starts
\* the stream that is loaded at that moment
WorkerPlay(u) ==
    /\ workers[u].pc = "play"
    /\ \/ /\ workers' = [workers EXCEPT ![u].pc = "done", ![u].started = TRUE]
          /\ music_playing' = music_loaded
          /\ playLog' = Append(playLog, music_loaded)
          /\ staleStart' = (staleStart \/ workers[u].gen # tts_generation)
          /\ UNCHANGED anyFail
       \/ /\ SetPc(u, "done")              \* play raised, caught at line 260
          /\ anyFail' = TRUE
          /\ UNCHANGED <<music_playing, playLog, staleStart>>
    /\ UNCHANGED <<tts_enabled, tts_generation, eleven_client, pygame_ready,
                   api_key, music_loaded, callerPc, nSpoken, nToggles>>
    /\ rejected' = "none"
    /\ UNCHANGED speakOverlap
    /\ UNCHANGED notSpeech

\* the audio sink reaches the end of the utterance that is playing
PlaybackEnds ==
    /\ music_playing # 0
    /\ music_playing' = 0
    /\ UNCHANGED <<tts_enabled, tts_generation, eleven_client, pygame_ready,
                   api_key, music_loaded, workers, callerPc, nSpoken,
                   nToggles, playLog, staleStart, anyFail>>
    /\ rejected' = "none"
    /\ UNCHANGED speakOverlap
    /\ UNCHANGED notSpeech

NextSpeech ==
    \/ \E c \in Callers, t \in Texts : SpeakEnter(c, t)
    \/ \E c \in Callers : SpeakLocked(c)
    \/ ToggleFlip
    \/ ToggleLocked
    \/ \E u \in Utterances : WorkerCheck1(u)
    \/ \E u \in Utterances : WorkerGetClient(u)
    \/ \E u \in Utterances : WorkerEnsurePygame(u)
    \/ \E u \in Utterances : WorkerConvert(u)
    \/ \E u \in Utterances : WorkerCheck2(u)
    \/ \E u \in Utterances : WorkerLoad(u)
    \/ \E u \in Utterances : WorkerPlay(u)
    \/ PlaybackEnds


\* ------------------------------------------------------------------------
\* Position integrator: RaspberryPi/inputs/mouse_input.py, config.py
\* ------------------------------------------------------------------------
\* MouseConfig defaults (config.py:12-26)
min_x == 0
max_x == 1600
min_y == 0
max_y == 1101
start_x == 1600 \div 2
start_y == 1101 \div 2
scale_x == 1
scale_y == 1

\* raw REL values delivered by the device, and arguments of
\* set_absolute_position, chosen so that both bounds are crossed
Deltas == {-2000, -700, 700, 2000}
SetXs == {-5, 800, 1700}
SetYs == {-5, 550, 1200}
Events == [type : {"EV_REL", "EV_KEY"},
           code : {"REL_X", "REL_Y", "REL_WHEEL"},
           value : Deltas \cup {0}]
DevStates == {"ok", "absent", "denied", "ioerr"}

Min(a, b) == IF a < b THEN a ELSE b
Max(a, b) == IF a > b THEN a ELSE b

\* _clamp without the upper limits
Clamp_NoUpper(x, y) == <<Max(min_x, x), Max(min_y, y)>>

\* _clamp
Clamp(x, y) == <<Max(min_x, Min(max_x, x)), Max(min_y, Min(max_y, y))>>

InBounds(x, y) == min_x <= x /\ x <= max_x /\ min_y <= y /\ y <= max_y

InitMouse ==
    /\ mouse_x = start_x
    /\ mouse_y = start_y
    /\ mouse_moved = FALSE
    /\ mouse_dev = "none"
    /\ mouse_stop = FALSE
    /\ mousePc = "not_started"
    /\ devState \in DevStates
    /\ mutSince = FALSE
    /\ polled = FALSE
    /\ isMovedRet = FALSE
    /\ isMovedExp = FALSE
    /\ clampedLast = FALSE
    /\ recovery = "none"

PollHistUnchanged == UNCHANGED <<polled, isMovedRet, isMovedExp>>

\* start()
MouseStart ==
    /\ mousePc \in {"not_started", "ended"}
    /\ mouse_stop' = FALSE
    /\ mousePc' = "loop"
    /\ UNCHANGED <<mouse_x, mouse_y, mouse_moved, mouse_dev, devState,
                   mutSince, clampedLast>>
    /\ PollHistUnchanged
    /\ UNCHANGED recovery
    /\ UNCHANGED notMouse

\* stop(): set the stop event (the join has a timeout and changes no state)
MouseStop ==
    /\ ~mouse_stop
    /\ mouse_stop' = TRUE
    /\ UNCHANGED <<mouse_x, mouse_y, mouse_moved, mouse_dev, mousePc, devState,
                   mutSince, clampedLast>>
    /\ PollHistUnchanged
    /\ UNCHANGED recovery
    /\ UNCHANGED notMouse

\* _run, lines 69-72 and 102-113: the while test, and opening the device
MouseLoop ==
    /\ mousePc = "loop"
    /\ IF mouse_stop
       THEN mousePc' = "ended" /\ UNCHANGED <<mouse_dev, recovery>>
       ELSE IF mouse_dev # "none"
       THEN mousePc' = "reading" /\ UNCHANGED <<mouse_dev, recovery>>
       ELSE IF devState = "ok"
       THEN /\ mousePc' = "reading"
            /\ mouse_dev' = "open"
            /\ recovery' = IF recovery = "failed" THEN "reopened" ELSE recovery
       ELSE /\ mousePc' = "sleep"
            /\ mouse_dev' = "none"
            /\ recovery' = "failed"
    /\ UNCHANGED <<mouse_x, mouse_y, mouse_moved, mouse_stop, devState,
                   mutSince, clampedLast>>
    /\ PollHistUnchanged
    /\ UNCHANGED notMouse

\* _run, lines 75-100: one event of read_loop()
MouseEvent(ev) ==
    /\ mousePc = "reading"
    /\ mouse_dev = "open"
    /\ IF mouse_stop
       THEN /\ mousePc' = "loop"
            /\ UNCHANGED <<mouse_x, mouse_y, mouse_moved, mutSince, clampedLast,
                           recovery>>
       ELSE IF \/ ev.type # "EV_REL"
               \/ ev.code \notin {"REL_X", "REL_Y"}
               \/ ev.value = 0
       THEN UNCHANGED <<mouse_x, mouse_y, mouse_moved, mousePc, mutSince,
                        clampedLast, recovery>>
       ELSE LET dx == IF ev.code = "REL_X" THEN ev.value ELSE 0
                dy == IF ev.code = "REL_Y" THEN ev.value ELSE 0
                new_x == mouse_x + dx * scale_x
                new_y == mouse_y + dy * scale_y
            IN  /\ mouse_x' = Clamp(new_x, new_y)[1]
                /\ mouse_y' = Clamp(new_x, new_y)[2]
                /\ mouse_moved' = TRUE
                /\ mutSince' = TRUE
                /\ clampedLast' = ~InBounds(new_x, new_y)
                /\ recovery' = IF recovery = "reopened" THEN "integrated"
                                ELSE recovery
                /\ UNCHANGED mousePc
    /\ UNCHANGED <<mouse_dev, mouse_stop, devState>>
    /\ PollHistUnchanged
    /\ UNCHANGED notMouse

\* _run whose except branches end the thread
MouseReadError_EndsTask ==
    /\ mousePc = "reading"
    /\ mouse_dev = "dead"
    /\ mouse_dev' = "none"
    /\ mousePc' = "ended"
    /\ recovery' = "failed"
    /\ UNCHANGED <<mouse_x, mouse_y, mouse_moved, mouse_stop, devState,
                   mutSince, clampedLast>>
    /\ PollHistUnchanged
    /\ UNCHANGED notMouse

\* _run whose except branches keep the failed handle in self._dev
MouseReadError_KeepsHandle ==
    /\ mousePc = "reading"
    /\ mouse_dev = "dead"
    /\ mousePc' = "sleep"
    /\ recovery' = "failed"
    /\ UNCHANGED <<mouse_x, mouse_y, mouse_moved, mouse_dev, mouse_stop,
                   devState, mutSince, clampedLast>>
    /\ PollHistUnchanged
    /\ UNCHANGED notMouse

\* _run, lines 102-113: read_loop() raises on a handle whose device is gone
MouseReadError ==
    /\ mousePc = "reading"
    /\ mouse_dev = "dead"
    /\ mouse_dev' = "none"
    /\ mousePc' = "sleep"
    /\ recovery' = "failed"
    /\ UNCHANGED <<mouse_x, mouse_y, mouse_moved, mouse_stop, devState,
                   mutSince, clampedLast>>
    /\ PollHistUnchanged
    /\ UNCHANGED notMouse

\* _run: time.sleep(...) of an except branch returns
MouseSleepDone ==
    /\ mousePc = "sleep"
    /\ mousePc' = "loop"
    /\ UNCHANGED <<mouse_x, mouse_y, mouse_moved, mouse_dev, mouse_stop,
                   devState, mutSince, clampedLast>>
    /\ PollHistUnchanged
    /\ UNCHANGED recovery
    /\ UNCHANGED notMouse

\* environment: the device node appears, disappears or fails
DeviceChange(d) ==
    /\ d # devState
    /\ devState' = d
    /\ mouse_dev' = IF mouse_dev = "open" /\ d # "ok" THEN "dead" ELSE mouse_dev
    /\ UNCHANGED <<mouse_x, mouse_y, mouse_moved, mouse_stop, mousePc,
                   mutSince, clampedLast>>
    /\ PollHistUnchanged
    /\ UNCHANGED recovery
    /\ UNCHANGED notMouse

\* is_moved() that reads the flag without resetting it
IsMoved_NoClear ==
    /\ isMovedRet' = mouse_moved
    /\ isMovedExp' = mutSince
    /\ mutSince' = FALSE
    /\ polled' = TRUE
    /\ UNCHANGED <<mouse_x, mouse_y, mouse_moved, mouse_dev, mouse_stop,
                   mousePc, devState, clampedLast>>
    /\ UNCHANGED recovery
    /\ UNCHANGED notMouse

\* is_moved()
IsMoved ==
    /\ isMovedRet' = mouse_moved
    /\ mouse_moved' = FALSE
    /\ isMovedExp' = mutSince
    /\ mutSince' = FALSE
    /\ polled' = TRUE
    /\ UNCHANGED <<mouse_x, mouse_y, mouse_dev, mouse_stop, mousePc, devState,
                   clampedLast>>
    /\ UNCHANGED recovery
    /\ UNCHANGED notMouse

\* set_absolute_position(x, y)
SetAbsolutePosition(x, y) ==
    /\ mouse_x' = Clamp(x, y)[1]
    /\ mouse_y' = Clamp(x, y)[2]
    /\ mouse_moved' = TRUE
    /\ mutSince' = TRUE
    /\ clampedLast' = ~InBounds(x, y)
    /\ UNCHANGED <<mouse_dev, mouse_stop, mousePc, devState>>
    /\ PollHistUnchanged
    /\ UNCHANGED recovery
    /\ UNCHANGED notMouse

NextMouse ==
    \/ MouseStart
    \/ MouseStop
    \/ MouseLoop
    \/ \E ev \in Events : MouseEvent(ev)
    \/ MouseReadError
    \/ MouseSleepDone
    \/ \E d \in DevStates : DeviceChange(d)
    \/ IsMoved
    \/ \E x \in SetXs, y \in SetYs : SetAbsolutePosition(x, y)

\* ------------------------------------------------------------------------
\* MouseInput._lock: the with-blocks of _run (96-100), of
\* get_absolute_position (115-117) and of set_absolute_position (129-135),
\* one attribute store or load at a time
\* ------------------------------------------------------------------------
MaxMut == 3

\* the input thread, a thread calling set_absolute_position and a thread
\* calling get_absolute_position
PosWriters == {"input", "setter"}
PosThreads == PosWriters \cup {"getter"}

\* the REL events and set_absolute_position arguments of this
\* specification
PosEvents == {[type |-> "EV_REL", code |-> "REL_X", value |-> 700],
              [type |-> "EV_REL", code |-> "REL_Y", value |-> -700]}
PosSets == {<<-5, 1200>>, <<800, 550>>}

NoPair == <<-1, -1, FALSE>>
NoLoad == <<-1, -1>>
NoPosRet == [pos |-> <<-1, -1>>, xs |-> -1, ys |-> -1]

InitPos ==
    /\ pos_lock = {}
    /\ posPc = [t \in PosThreads |-> "idle"]
    /\ posNew = [t \in PosWriters |-> NoPair]
    /\ getX = NoLoad
    /\ posRet = NoPosRet
    /\ mutNo = 0
    /\ xStamp = 0
    /\ yStamp = 0
    /\ posLog = <<<<start_x, start_y>>>>

\* the fields of MouseInput that the with-blocks do not touch
posOther == <<mouse_dev, mouse_stop, mousePc, devState, polled, isMovedRet,
              isMovedExp, recovery>>

\* _run, lines 96-98: the input thread, holding an EV_REL event with a
\* non-zero delta, takes the lock and computes the new pair
IntegrateAcquire(ev) ==
    /\ posPc["input"] = "idle"
    /\ pos_lock = {}
    /\ mutNo < MaxMut
    /\ LET dx == IF ev.code = "REL_X" THEN ev.value ELSE 0
           dy == IF ev.code = "REL_Y" THEN ev.value ELSE 0
           new_x == mouse_x + dx * scale_x
           new_y == mouse_y + dy * scale_y
       IN  posNew' = [posNew EXCEPT !["input"] =
                         <<Clamp(new_x, new_y)[1], Clamp(new_x, new_y)[2],
                           ~InBounds(new_x, new_y)>>]
    /\ pos_lock' = {"input"}
    /\ posPc' = [posPc EXCEPT !["input"] = "locked"]
    /\ mutNo' = mutNo + 1
    /\ UNCHANGED <<mouse_x, mouse_y, mouse_moved, mutSince, clampedLast>>
    /\ UNCHANGED <<getX, posRet, xStamp, yStamp, posLog>>
    /\ UNCHANGED <<posOther, notInput>>

\* set_absolute_position, lines 133-134: take the lock and clamp
SetAcquire(x, y) ==
    /\ posPc["setter"] = "idle"
    /\ pos_lock = {}
    /\ mutNo < MaxMut
    /\ posNew' = [posNew EXCEPT !["setter"] =
                     <<Clamp(x, y)[1], Clamp(x, y)[2], ~InBounds(x, y)>>]
    /\ pos_lock' = {"setter"}
    /\ posPc' = [posPc EXCEPT !["setter"] = "locked"]
    /\ mutNo' = mutNo + 1
    /\ UNCHANGED <<mouse_x, mouse_y, mouse_moved, mutSince, clampedLast>>
    /\ UNCHANGED <<getX, posRet, xStamp, yStamp, posLog>>
    /\ UNCHANGED <<posOther, notInput>>

\* lines 99 and 134: the store of self._x
WriterStoreX(t) ==
    /\ posPc[t] = "locked"
    /\ mouse_x' = posNew[t][1]
    /\ xStamp' = mutNo
    /\ posPc' = [posPc EXCEPT ![t] = "x_done"]
    /\ UNCHANGED <<mouse_y, mouse_moved, mutSince, clampedLast>>
    /\ UNCHANGED <<pos_lock, posNew, getX, posRet, mutNo, yStamp, posLog>>
    /\ UNCHANGED <<posOther, notInput>>

\* lines 99-100 and 134-135: the store of self._y, self._moved = True, and
\* the release of the lock at the end of the with-block
WriterStoreY(t) ==
    /\ posPc[t] = "x_done"
    /\ mouse_y' = posNew[t][2]
    /\ yStamp' = mutNo
    /\ mouse_moved' = TRUE
    /\ mutSince' = TRUE
    /\ clampedLast' = posNew[t][3]
    /\ posLog' = Append(posLog, <<mouse_x, posNew[t][2]>>)
    /\ pos_lock' = pos_lock \ {t}
    /\ posPc' = [posPc EXCEPT ![t] = "idle"]
    /\ posNew' = [posNew EXCEPT ![t] = NoPair]
    /\ UNCHANGED <<mouse_x, getX, posRet, mutNo, xStamp>>
    /\ UNCHANGED <<posOther, notInput>>

\* get_absolute_position that reads the fields without taking the lock
GetAcquire_NoLock ==
    /\ posPc["getter"] = "idle"
    /\ posPc' = [posPc EXCEPT !["getter"] = "locked"]
    /\ UNCHANGED <<mouse_x, mouse_y, mouse_moved, mutSince, clampedLast>>
    /\ UNCHANGED <<pos_lock, posNew, getX, posRet, mutNo, xStamp, yStamp,
                   posLog>>
    /\ UNCHANGED <<posOther, notInput>>

\* get_absolute_position, line 116: take the lock
GetAcquire ==
    /\ posPc["getter"] = "idle"
    /\ pos_lock = {}
    /\ pos_lock' = {"getter"}
    /\ posPc' = [posPc EXCEPT !["getter"] = "locked"]
    /\ UNCHANGED <<mouse_x, mouse_y, mouse_moved, mutSince, clampedLast>>
    /\ UNCHANGED <<posNew, getX, posRet, mutNo, xStamp, yStamp, posLog>>
    /\ UNCHANGED <<posOther, notInput>>

\* line 117: the load of self._x
GetLoadX ==
    /\ posPc["getter"] = "locked"
    /\ getX' = <<mouse_x, xStamp>>
    /\ posPc' = [posPc EXCEPT !["getter"] = "x_done"]
    /\ UNCHANGED <<mouse_x, mouse_y, mouse_moved, mutSince, clampedLast>>
    /\ UNCHANGED <<pos_lock, posNew, posRet, mutNo, xStamp, yStamp, posLog>>
    /\ UNCHANGED <<posOther, notInput>>

\* line 117: the load of self._y, the return of the pair, and the release
\* of the lock at the end of the with-block
GetLoadY ==
    /\ posPc["getter"] = "x_done"
    /\ posRet' = [pos |-> <<getX[1], mouse_y>>, xs |-> getX[2], ys |-> yStamp]
    /\ getX' = NoLoad
    /\ pos_lock' = pos_lock \ {"getter"}
    /\ posPc' = [posPc EXCEPT !["getter"] = "idle"]
    /\ UNCHANGED <<mouse_x, mouse_y, mouse_moved, mutSince, clampedLast>>
    /\ UNCHANGED <<posNew, mutNo, xStamp, yStamp, posLog>>
    /\ UNCHANGED <<posOther, notInput>>

NextPos ==
    \/ \E ev \in PosEvents : IntegrateAcquire(ev)
    \/ \E p \in PosSets : SetAcquire(p[1], p[2])
    \/ \E t \in PosWriters : WriterStoreX(t)
    \/ \E t \in PosWriters : WriterStoreY(t)
    \/ GetAcquire
    \/ GetLoadX
    \/ GetLoadY


\* ------------------------------------------------------------------------
\* Producer endpoint: RaspberryPi/network/ws_client.py
\* ------------------------------------------------------------------------
\* asyncio.Queue(maxsize=200)
maxsize == 200

InitClient(cap) ==
    /\ send_q = <<>>
    /\ q_maxsize = cap
    /\ ws_stop = FALSE
    /\ is_connected = FALSE
    /\ runPc = "none"
    /\ consumerSt = "none"
    /\ producerSt = "none"
    /\ inflight = -1
    /\ linkSt = "none"
    /\ serverUp \in BOOLEAN
    /\ nSent = 0
    /\ nFaults = 0
    /\ lastWritten = -1
    /\ written = <<>>
    /\ drained = FALSE
    /\ hadFailure = FALSE
    /\ sentAfterStop = FALSE

\* send_json that gives up on a full queue (keeps the old messages)
QueueAfterSend_DropNewest(q, obj) ==
    IF Len(q) < q_maxsize THEN Append(q, obj) ELSE q

\* asyncio.Queue.put_nowait / get_nowait as used by send_json: the queue
\* after send_json(obj)
QueueAfterSend(q, obj) ==
    IF Len(q) < q_maxsize
    THEN Append(q, obj)
    ELSE LET q1 == IF q # <<>> THEN Tail(q) ELSE q
         IN  IF Len(q1) < q_maxsize THEN Append(q1, obj) ELSE q1

\* send_json(obj); the message is identified by its enqueue sequence number
SendJson(limit) ==
    /\ nSent < limit
    /\ send_q' = QueueAfterSend(send_q, nSent)
    /\ nSent' = nSent + 1
    /\ UNCHANGED <<q_maxsize, ws_stop, is_connected, runPc, consumerSt,
                   producerSt, inflight, linkSt, serverUp, nFaults,
                   lastWritten, drained, hadFailure>>
    /\ UNCHANGED written
    /\ sentAfterStop' = (sentAfterStop \/ ws_stop)
    /\ UNCHANGED notClient

\* start()
ClientStart ==
    /\ runPc \in {"none", "done"}
    /\ runPc' = "created"
    /\ UNCHANGED <<send_q, q_maxsize, ws_stop, is_connected, consumerSt,
                   producerSt, inflight, linkSt, serverUp, nSent, nFaults,
                   lastWritten, drained, hadFailure>>
    /\ UNCHANGED written
    /\ UNCHANGED sentAfterStop
    /\ UNCHANGED notClient

\* stop(): set the event and cancel the run task; CancelledError ends _run
\* (lines 92-93, 98-99) and the async-with exit closes the websocket, but
\* the consumer and producer tasks are not cancelled by it
ClientStop ==
    /\ ~ws_stop \/ runPc \notin {"none", "done"}
    /\ ws_stop' = TRUE
    /\ IF runPc \in {"none", "done"}
       THEN UNCHANGED <<runPc, is_connected, linkSt>>
       ELSE /\ runPc' = "done"
            /\ is_connected' = FALSE
            /\ linkSt' = IF linkSt = "open" THEN "closed_ok" ELSE linkSt
    /\ UNCHANGED <<send_q, q_maxsize, consumerSt, producerSt, inflight,
                   serverUp, nSent, nFaults, lastWritten, drained, hadFailure>>
    /\ UNCHANGED written
    /\ UNCHANGED sentAfterStop
    /\ UNCHANGED notClient

\* a while test that ignores the stop event
LoopTest_IgnoresStop == "connecting"

\* the while test of line 69 followed by the start of websockets.connect
LoopTest == IF ws_stop THEN "done" ELSE "connecting"

\* _run, first resumption of the task
RunBegin ==
    /\ runPc = "created"
    /\ runPc' = LoopTest
    /\ UNCHANGED <<send_q, q_maxsize, ws_stop, is_connected, consumerSt,
                   producerSt, inflight, linkSt, serverUp, nSent, nFaults,
                   lastWritten, drained, hadFailure>>
    /\ UNCHANGED written
    /\ UNCHANGED sentAfterStop
    /\ UNCHANGED notClient

\* _run, lines 72-88: the connection is established, both tasks are
\* created and _run awaits asyncio.wait
ConnectOK ==
    /\ runPc = "connecting"
    /\ serverUp
    /\ is_connected' = TRUE
    /\ linkSt' = "open"
    /\ consumerSt' = "running"
    /\ producerSt' = "running"
    /\ inflight' = -1
    /\ runPc' = "waiting"
    /\ UNCHANGED <<send_q, q_maxsize, ws_stop, serverUp, nSent, nFaults,
                   lastWritten, drained, hadFailure>>
    /\ UNCHANGED written
    /\ UNCHANGED sentAfterStop
    /\ UNCHANGED notClient

\* _run, lines 94-97: websockets.connect raised; sleep reconnect_delay_s
ConnectFail ==
    /\ runPc = "connecting"
    /\ ~serverUp
    /\ is_connected' = FALSE
    /\ runPc' = "sleeping"
    /\ hadFailure' = TRUE
    /\ UNCHANGED <<send_q, q_maxsize, ws_stop, consumerSt, producerSt,
                   inflight, linkSt, serverUp, nSent, nFaults, lastWritten,
                   drained>>
    /\ UNCHANGED written
    /\ UNCHANGED sentAfterStop
    /\ UNCHANGED notClient

Connect == ConnectOK \/ ConnectFail

\* a run loop that ends after the first failed attempt
SleepDone_NoRetry ==
    /\ runPc = "sleeping"
    /\ is_connected' = FALSE
    /\ runPc' = "done"
    /\ UNCHANGED <<send_q, q_maxsize, ws_stop, consumerSt, producerSt,
                   inflight, linkSt, serverUp, nSent, nFaults, lastWritten,
                   drained, hadFailure>>
    /\ UNCHANGED written
    /\ UNCHANGED sentAfterStop
    /\ UNCHANGED notClient

\* _run, lines 97-99 and 69: the sleep returns, finally, next iteration
SleepDone ==
    /\ runPc = "sleeping"
    /\ is_connected' = FALSE
    /\ runPc' = LoopTest
    /\ UNCHANGED <<send_q, q_maxsize, ws_stop, consumerSt, producerSt,
                   inflight, linkSt, serverUp, nSent, nFaults, lastWritten,
                   drained, hadFailure>>
    /\ UNCHANGED written
    /\ UNCHANGED sentAfterStop
    /\ UNCHANGED notClient

TaskDone(st) == st \in {"finished", "raised", "cancelled"}

\* asyncio.wait(..., return_when=FIRST_EXCEPTION): returns when a task has
\* raised, or when every task is done
WaitOver ==
    \/ consumerSt = "raised"
    \/ producerSt = "raised"
    \/ (TaskDone(consumerSt) /\ TaskDone(producerSt))

\* _run, lines 85-90: asyncio.wait returns, the pending tasks are
\* cancelled, and the async-with block starts closing the websocket
WaitReturns ==
    /\ runPc = "waiting"
    /\ WaitOver
    /\ consumerSt' = IF TaskDone(consumerSt) THEN consumerSt ELSE "cancelled"
    /\ producerSt' = IF TaskDone(producerSt) THEN producerSt ELSE "cancelled"
    /\ inflight' = -1
    /\ runPc' = "closing"
    /\ UNCHANGED <<send_q, q_maxsize, ws_stop, is_connected, linkSt, serverUp,
                   nSent, nFaults, lastWritten, drained, hadFailure>>
    /\ UNCHANGED written
    /\ UNCHANGED sentAfterStop
    /\ UNCHANGED notClient

\* _run, lines 77, 98-99 and 69: the async-with exit completes without an
\* exception, finally clears is_connected, next iteration
CloseDone ==
    /\ runPc = "closing"
    /\ linkSt' = "none"
    /\ is_connected' = FALSE
    /\ runPc' = LoopTest
    /\ UNCHANGED <<send_q, q_maxsize, ws_stop, consumerSt, producerSt,
                   inflight, serverUp, nSent, nFaults, lastWritten, drained,
                   hadFailure>>
    /\ UNCHANGED written
    /\ UNCHANGED sentAfterStop
    /\ UNCHANGED notClient

\* _produce_outgoing that reads the head of the queue and leaves it there
ProducerTake_NoRemove ==
    /\ producerSt = "running"
    /\ send_q # <<>>
    /\ inflight' = Head(send_q)
    /\ producerSt' = "sending"
    /\ drained' = TRUE
    /\ UNCHANGED <<send_q, q_maxsize, ws_stop, is_connected, runPc,
                   consumerSt, linkSt, serverUp, nSent, nFaults, lastWritten,
                   hadFailure>>
    /\ UNCHANGED written
    /\ UNCHANGED sentAfterStop
    /\ UNCHANGED notClient

\* _produce_outgoing, line 103: msg = await self._send_q.get()
ProducerTake ==
    /\ producerSt = "running"
    /\ send_q # <<>>
    /\ inflight' = Head(send_q)
    /\ send_q' = Tail(send_q)
    /\ producerSt' = "sending"
    /\ drained' = TRUE
    /\ UNCHANGED <<q_maxsize, ws_stop, is_connected, runPc, consumerSt,
                   linkSt, serverUp, nSent, nFaults, lastWritten, hadFailure>>
    /\ UNCHANGED written
    /\ UNCHANGED sentAfterStop
    /\ UNCHANGED notClient

\* _produce_outgoing, line 104: await ws.send(...); raises on a websocket
\* that is closed
ProducerSend ==
    /\ producerSt = "sending"
    /\ IF linkSt = "open"
       THEN /\ lastWritten' = inflight
            /\ written' = Append(written, inflight)
            /\ producerSt' = "running"
       ELSE /\ producerSt' = "raised"
            /\ UNCHANGED <<lastWritten, written>>
    /\ inflight' = -1
    /\ UNCHANGED <<send_q, q_maxsize, ws_stop, is_connected, runPc,
                   consumerSt, linkSt, serverUp, nSent, nFaults, drained,
                   hadFailure>>
    /\ UNCHANGED sentAfterStop
    /\ UNCHANGED notClient

\* _consume_incoming: the async-for ends normally when the connection was
\* closed cleanly and raises ConnectionClosedError otherwise
ConsumerEnd ==
    /\ consumerSt = "running"
    /\ linkSt \in {"closed_ok", "broken"}
    /\ consumerSt' = IF linkSt = "closed_ok" THEN "finished" ELSE "raised"
    /\ UNCHANGED <<send_q, q_maxsize, ws_stop, is_connected, runPc,
                   producerSt, inflight, linkSt, serverUp, nSent, nFaults,
                   lastWritten, drained, hadFailure>>
    /\ UNCHANGED written
    /\ UNCHANGED sentAfterStop
    /\ UNCHANGED notClient

\* environment: the peer closes the connection cleanly
PeerClose ==
    /\ linkSt = "open"
    /\ nFaults < MaxFaults
    /\ linkSt' = "closed_ok"
    /\ nFaults' = nFaults + 1
    /\ UNCHANGED <<send_q, q_maxsize, ws_stop, is_connected, runPc,
                   consumerSt, producerSt, inflight, serverUp, nSent,
                   lastWritten, drained, hadFailure>>
    /\ UNCHANGED written
    /\ UNCHANGED sentAfterStop
    /\ UNCHANGED notClient

\* environment: the connection breaks (network error, abnormal closure)
NetError ==
    /\ linkSt = "open"
    /\ nFaults < MaxFaults
    /\ linkSt' = "broken"
    /\ nFaults' = nFaults + 1
    /\ UNCHANGED <<send_q, q_maxsize, ws_stop, is_connected, runPc,
                   consumerSt, producerSt, inflight, serverUp, nSent,
                   lastWritten, drained, hadFailure>>
    /\ UNCHANGED written
    /\ UNCHANGED sentAfterStop
    /\ UNCHANGED notClient

\* environment: the server becomes reachable or unreachable
ServerToggle ==
    /\ serverUp' = ~serverUp
    /\ UNCHANGED <<send_q, q_maxsize, ws_stop, is_connected, runPc,
                   consumerSt, producerSt, inflight, linkSt, nSent, nFaults,
                   lastWritten, drained, hadFailure>>
    /\ UNCHANGED written
    /\ UNCHANGED sentAfterStop
    /\ UNCHANGED notClient

NextClient ==
    \/ SendJson(MaxSend)
    \/ ClientStart
    \/ ClientStop
    \/ RunBegin
    \/ ConnectOK
    \/ ConnectFail
    \/ SleepDone
    \/ WaitReturns
    \/ CloseDone
    \/ ProducerTake
    \/ ProducerSend
    \/ ConsumerEnd
    \/ PeerClose
    \/ NetError
    \/ ServerToggle

\* the send queue at its real capacity, with the run task connecting and
\* the drain task taking messages, and no connection fault
NextQueue ==
    \/ SendJson(maxsize + MaxOverflow)
    \/ ClientStart
    \/ RunBegin
    \/ ConnectOK
    \/ ConnectFail
    \/ SleepDone
    \/ ProducerTake
    \/ ProducerSend
    \/ ServerToggle

\* ------------------------------------------------------------------------
\* Receiver endpoint: Computer/network/ws_server.py
\* ------------------------------------------------------------------------
Conns == 1..MaxConns

\* JSON values of a record field: t is the JSON type ("numstr" is a string
\* that spells a number, "str" one that does not), v the number in tenths
JInt(n) == [t |-> "int", v |-> 10 * n]
JReal(tenths) == [t |-> "real", v |-> tenths]
JAbsent == [t |-> "absent", v |-> 0]
JStr == [t |-> "str", v |-> 0]
JNumStr(n) == [t |-> "numstr", v |-> 10 * n]
JNull == [t |-> "null", v |-> 0]

XValues == {JInt(7), JNumStr(3), JStr}
YValues == {JReal(25), JAbsent, JNull}
WValues == {JInt(100), JInt(0), JStr}
HValues == {JReal(-5), JInt(50), JAbsent}

\* text records received on a connection: mouse_pos objects, objects of
\* another type or with no type, text that is not JSON, and JSON that is
\* not an object
Records ==
    [kind : {"object"}, type : {"mouse_pos"}, x : XValues, y : YValues,
     w : WValues, h : HValues]
    \cup [kind : {"object"}, type : {"absent", "hello", "unknown"},
          x : {JInt(7), JAbsent}, y : {JReal(25)}, w : {JInt(100)},
          h : {JInt(50)}]
    \cup [kind : {"notjson", "nonobject"}, type : {"absent"}, x : {JAbsent},
          y : {JAbsent}, w : {JAbsent}, h : {JAbsent}]

NoRecord == [kind |-> "none", type |-> "absent", x |-> JAbsent, y |-> JAbsent,
             w |-> JAbsent, h |-> JAbsent]
NoArgs == <<0, 0, 0, 0>>

\* obj.get(key, default)
Get(val, default) == IF val.t = "absent" THEN JInt(default) ELSE val

\* float(v) raises ValueError / TypeError
FloatRaises(val) == val.t \in {"str", "null"}

\* float(v), in tenths
Float(val) == val.v

InitServer ==
    /\ srvPc = "none"
    /\ srv_stop_evt = FALSE
    /\ srv_loop = "none"
    /\ loopStopReq = FALSE
    /\ connSt = [c \in Conns |-> "none"]
    /\ stateLog = [c \in Conns |-> <<>>]
    /\ handled = [rec |-> NoRecord, conn |-> 0, ncalls |-> 0, args |-> NoArgs,
                  open |-> FALSE]

\* start(), lines 44-49: a no-op while the thread is alive
ServerStart ==
    /\ srvPc \in {"none", "ended"}
    /\ srv_stop_evt' = FALSE
    /\ srvPc' = "starting"
    /\ UNCHANGED <<srv_loop, loopStopReq, connSt, stateLog, handled>>
    /\ UNCHANGED notServer

\* stop(), lines 51-56: sets the event and, if a loop exists, schedules
\* loop.stop on it (on a closed loop call_soon_threadsafe raises); the join
\* has a timeout, stop() does not wait for the thread beyond it
ServerStop ==
    /\ srv_stop_evt' = TRUE
    /\ loopStopReq' = IF srv_loop = "open" THEN TRUE ELSE loopStopReq
    /\ UNCHANGED <<srvPc, srv_loop, connSt, stateLog, handled>>
    /\ UNCHANGED notServer

\* _thread_main, lines 59-60
ThreadCreateLoop ==
    /\ srvPc = "starting"
    /\ srvPc' = "created"
    /\ srv_loop' = "open"
    /\ loopStopReq' = FALSE
    /\ UNCHANGED <<srv_stop_evt, connSt, stateLog, handled>>
    /\ UNCHANGED notServer

\* _thread_main line 62 and _serve lines 72-73: the loop runs and the
\* listening socket is bound
ThreadServe ==
    /\ srvPc = "created"
    /\ ~loopStopReq
    /\ srvPc' = "serving"
    /\ UNCHANGED <<srv_stop_evt, srv_loop, loopStopReq, connSt, stateLog,
                   handled>>
    /\ UNCHANGED notServer

\* _serve line 72 raises (the port is in use); _thread_main, lines 63-69
ServeFails ==
    /\ srvPc = "created"
    /\ ~loopStopReq
    /\ srvPc' = "ended"
    /\ srv_loop' = "closed"
    /\ UNCHANGED <<srv_stop_evt, loopStopReq, connSt, stateLog, handled>>
    /\ UNCHANGED notServer

\* _serve line 75 with the test never failing
ServeLoopContinues_Forever == TRUE

\* _serve line 75: while not self._stop_evt.is_set()
ServeLoopContinues == ~srv_stop_evt

\* _serve, lines 72-76: the while loop ends and the async with is left:
\* the server stops listening and closes its connections
ServePollExit ==
    /\ srvPc = "serving"
    /\ ~ServeLoopContinues
    /\ srvPc' = "closing"
    /\ connSt' = [c \in Conns |->
                    IF connSt[c] = "open" THEN "ending" ELSE connSt[c]]
    /\ UNCHANGED <<srv_stop_evt, srv_loop, loopStopReq, stateLog, handled>>
    /\ UNCHANGED notServer

\* _serve returns once every handler has returned; _thread_main, 65-69
ThreadEnd ==
    /\ srvPc = "closing"
    /\ \A c \in Conns : connSt[c] \notin {"open", "ending"}
    /\ srvPc' = "ended"
    /\ srv_loop' = "closed"
    /\ UNCHANGED <<srv_stop_evt, loopStopReq, connSt, stateLog, handled>>
    /\ UNCHANGED notServer

\* the scheduled loop.stop takes effect: run_until_complete raises
\* RuntimeError, _thread_main logs it and closes the loop (lines 62-69);
\* the handlers of the connections stay suspended where they are
LoopStops ==
    /\ srvPc \in {"created", "serving", "closing"}
    /\ loopStopReq
    /\ srvPc' = "ended"
    /\ srv_loop' = "closed"
    /\ connSt' = [c \in Conns |->
                    IF connSt[c] \in {"open", "ending"} THEN "abandoned"
                    ELSE connSt[c]]
    /\ UNCHANGED <<srv_stop_evt, loopStopReq, stateLog, handled>>
    /\ UNCHANGED notServer

\* _handler, lines 79-82: a connection is accepted and its handler calls
\* on_client_state(True)
Accept(c) ==
    /\ srvPc = "serving"
    /\ connSt[c] = "none"
    /\ connSt' = [connSt EXCEPT ![c] = "open"]
    /\ stateLog' = [stateLog EXCEPT ![c] = Append(@, TRUE)]
    /\ UNCHANGED <<srvPc, srv_stop_evt, srv_loop, loopStopReq, handled>>
    /\ UNCHANGED notServer

\* _handler, lines 92-96 with the arguments in the wrong order
MousePosArgs_Swapped(rec) ==
    <<Float(Get(rec.y, 0)), Float(Get(rec.x, 0)),
      Float(Get(rec.w, 1)), Float(Get(rec.h, 1))>>

\* _handler, lines 92-96: the arguments of the position callback
MousePosArgs(rec) ==
    <<Float(Get(rec.x, 0)), Float(Get(rec.y, 0)),
      Float(Get(rec.w, 1)), Float(Get(rec.h, 1))>>

\* _handler, lines 85-101: what one message causes; raised means that an
\* exception left the loop body (it is caught at line 102, outside the loop)
Dispatch(rec) ==
    IF rec.kind = "notjson"
    THEN [ncalls |-> 0, args |-> NoArgs, raised |-> FALSE]
    ELSE IF rec.kind = "nonobject"
    THEN [ncalls |-> 0, args |-> NoArgs, raised |-> TRUE]
    ELSE IF rec.type = "mouse_pos"
    THEN IF \/ FloatRaises(Get(rec.x, 0)) \/ FloatRaises(Get(rec.y, 0))
            \/ FloatRaises(Get(rec.w, 1)) \/ FloatRaises(Get(rec.h, 1))
         THEN [ncalls |-> 0, args |-> NoArgs, raised |-> TRUE]
         ELSE [ncalls |-> 1, args |-> MousePosArgs(rec), raised |-> FALSE]
    ELSE [ncalls |-> 0, args |-> NoArgs, raised |-> FALSE]

\* _handler, lines 84-106: one message of the async-for; an exception ends
\* the handler, which calls on_client_state(False)
HandleMessage(c, rec) ==
    /\ srvPc = "serving"
    /\ connSt[c] = "open"
    /\ LET d == Dispatch(rec)
       IN  /\ handled' = [rec |-> rec, conn |-> c, ncalls |-> d.ncalls,
                          args |-> d.args, open |-> ~d.raised]
           /\ IF d.raised
              THEN /\ connSt' = [connSt EXCEPT ![c] = "closed"]
                   /\ stateLog' = [stateLog EXCEPT ![c] = Append(@, FALSE)]
              ELSE UNCHANGED <<connSt, stateLog>>
    /\ UNCHANGED <<srvPc, srv_stop_evt, srv_loop, loopStopReq>>
    /\ UNCHANGED notServer

\* the peer closes the connection or the connection fails
PeerEnds(c) ==
    /\ connSt[c] = "open"
    /\ connSt' = [connSt EXCEPT ![c] = "ending"]
    /\ UNCHANGED <<srvPc, srv_stop_evt, srv_loop, loopStopReq, stateLog,
                   handled>>
    /\ UNCHANGED notServer

\* _handler, lines 84 and 102-106: the running loop resumes the handler of a
\* closed connection, the async-for ends or raises, the finally clause
\* calls on_client_state(False)
HandlerExit(c) ==
    /\ srvPc \in {"serving", "closing"}
    /\ connSt[c] = "ending"
    /\ connSt' = [connSt EXCEPT ![c] = "closed"]
    /\ stateLog' = [stateLog EXCEPT ![c] = Append(@, FALSE)]
    /\ UNCHANGED <<srvPc, srv_stop_evt, srv_loop, loopStopReq, handled>>
    /\ UNCHANGED notServer

\* _handler, lines 104-106: the suspended handler of a stopped loop is
\* garbage; if and when the interpreter finalizes its coroutine, the
\* finally clause runs
HandlerFinalized(c) ==
    /\ connSt[c] = "abandoned"
    /\ connSt' = [connSt EXCEPT ![c] = "closed"]
    /\ stateLog' = [stateLog EXCEPT ![c] = Append(@, FALSE)]
    /\ UNCHANGED <<srvPc, srv_stop_evt, srv_loop, loopStopReq, handled>>
    /\ UNCHANGED notServer

NextServer ==
    \/ ServerStart
    \/ ServerStop
    \/ ThreadCreateLoop
    \/ ThreadServe
    \/ ServeFails
    \/ ServePollExit
    \/ ThreadEnd
    \/ LoopStops
    \/ \E c \in Conns : Accept(c)
    \/ \E c \in Conns, rec \in Records : HandleMessage(c, rec)
    \/ \E c \in Conns : PeerEnds(c)
    \/ \E c \in Conns : HandlerExit(c)
    \/ \E c \in Conns : HandlerFinalized(c)

\* ------------------------------------------------------------------------
\* Grid cell resolver: RaspberryPi/main.py
\* ------------------------------------------------------------------------
ROWS == 6
COLS == 6
COL_LABELS == <<"A", "B", "C", "D", "E", "F">>

\* positions and viewport sizes handed to cell_from_xy: inside the viewport,
\* on cell borders, negative, and beyond the viewport
CellXs == {-150, -1, 0, 16, 17, 50, 99, 100, 150}
CellYs == {-100, -1, 0, 33, 34, 83, 84, 99, 1101}
CellWs == {0, 100, max_x}
CellHs == {-3, 100, max_y}
CellInputs == CellXs \X CellYs \X CellWs \X CellHs

NoCell == <<"", -1, -1>>

\* a * n / b rounded away from zero instead of truncated
IntOfScaled_RoundUp(a, b, n) ==
    IF a >= 0 THEN (a * n + b - 1) \div b ELSE -(((-a) * n + b - 1) \div b)

\* int(a / b * n) for integers a, n and b > 0: the product a * n / b,
\* truncated toward zero
IntOfScaled(a, b, n) ==
    IF a >= 0 THEN (a * n) \div b ELSE -(((-a) * n) \div b)

\* cell_from_xy, lines 116-117: max(0, min(n - 1, i))
CellClamp(i, n) == Max(0, Min(n - 1, i))

\* cell_from_xy, lines 103-120
cell_from_xy(x, y, w, h) ==
    LET w1 == Max(1, w)
        h1 == Max(1, h)
        col == CellClamp(IntOfScaled(x, w1, COLS), COLS)
        row == CellClamp(IntOfScaled(y, h1, ROWS), ROWS)
        label == COL_LABELS[col + 1] \o ToString(row + 1)
    IN  <<label, row, col>>

InitCell ==
    /\ cell_args = <<start_x, start_y, max_x, max_y>>
    /\ cell_ret = NoCell

\* main loop, lines 206 and 222: a position is read and resolved
CellResolve ==
    /\ cell_ret = NoCell
    /\ cell_ret' = cell_from_xy(cell_args[1], cell_args[2], cell_args[3],
                                cell_args[4])
    /\ UNCHANGED cell_args
    /\ UNCHANGED notCell

\* main loop, lines 201-206: the next position
CellNextPosition(args) ==
    /\ cell_ret # NoCell
    /\ cell_args' = args
    /\ cell_ret' = NoCell
    /\ UNCHANGED notCell

NextCell ==
    \/ CellResolve
    \/ \E args \in CellInputs : CellNextPosition(args)

\* ------------------------------------------------------------------------
\* Score table and lookup: RaspberryPi/main.py
\* ------------------------------------------------------------------------
MaxFactors == 2

\* the 36 cell labels A1..F6
Labels == {COL_LABELS[c] \o ToString(r) : c \in 1..COLS, r \in 1..ROWS}

\* grid_map objects of an analysis result: any of the keys, A1 with a
\* score that is in range, above 100, a negative fraction, or not a number,
\* F6 with a score in range or not a number
RawKeys == {"A1", "F6"}
RawScores == {JInt(40), JInt(150), JReal(-15), JStr}
RawMaps ==
    {m \in UNION {[K -> RawScores] : K \in SUBSET RawKeys} :
        "F6" \in DOMAIN m => m["F6"] \in {JInt(40), JStr}}

\* entries of interest_factors: not an object, an object without a
\* grid_scoring.grid_map object, or one with a grid_map (possibly empty)
FactorEntries ==
    {[kind |-> "notdict", map |-> <<>>], [kind |-> "noscoring", map |-> <<>>]}
    \cup [kind : {"map"}, map : RawMaps]
FactorLists == UNION {[1..n -> FactorEntries] : n \in 0..MaxFactors}
FactorIndexes == {0, 1, 5}
\* analysis results: interest_factors a list, or an object that is not one
Analyses ==
    [isList : {TRUE}, factors : FactorLists, index : FactorIndexes]
    \cup [isList : {FALSE},
          factors : {<<[kind |-> "map", map |-> [k \in {"A1"} |-> JInt(40)]]>>},
          index : {0}]

\* positions read in the main loop
LookXs == {0, 800, max_x}
LookYs == {0, max_y}

NoTable == [k \in {} |-> JInt(0)]
NoLook == [cell |-> "", raised |-> FALSE, level |-> -1]

\* int(v) raises ValueError / TypeError
IntRaises(val) == val.t \in {"str", "null"}

\* int(v): truncation toward zero
PyInt(val) == IF val.v >= 0 THEN val.v \div 10 ELSE -((-val.v) \div 10)

\* pick_grid_map without the upper limit of lines 91-92
SanitizedScore_NoUpper(val) ==
    LET iv == IF IntRaises(val) THEN 0 ELSE PyInt(val)
    IN  JInt(Max(0, iv))

\* pick_grid_map, lines 84-92: int(v) or 0, limited to 0..100
SanitizedScore(val) ==
    LET iv == IF IntRaises(val) THEN 0 ELSE PyInt(val)
    IN  JInt(Max(0, Min(100, iv)))

\* pick_grid_map that copies the scores as they are
Sanitize_Raw(m) ==
    [k \in DOMAIN m \cup Labels |->
        IF k \in DOMAIN m THEN m[k] ELSE JInt(0)]

\* pick_grid_map, lines 83-97: the sanitized map with all 36 keys
Sanitize(m) ==
    [k \in DOMAIN m \cup Labels |->
        IF k \in DOMAIN m THEN SanitizedScore(m[k]) ELSE JInt(0)]

\* pick_grid_map, lines 74-81: the entry has a non-empty grid_map object
Usable(entry) == entry.kind = "map" /\ DOMAIN entry.map # {}

\* pick_grid_map, line 72: the requested index, then the others in order
Indices(factor_index, n) ==
    <<factor_index>>
        \o SelectSeq([i \in 1..n |-> i - 1], LAMBDA i : i # factor_index)

\* pick_grid_map, lines 67-100: the index of the entry whose map is
\* returned, or -1 for None
PickIndex(a) ==
    LET n == Len(a.factors)
        idxs == Indices(a.index, n)
        ok == {j \in 1..Len(idxs) :
                 /\ idxs[j] >= 0 /\ idxs[j] < n
                 /\ Usable(a.factors[idxs[j] + 1])}
    IN  IF ~a.isList \/ n = 0 \/ ok = {}
        THEN -1
        ELSE idxs[CHOOSE j \in ok : \A k \in ok : j <= k]

ZeroTable == [k \in Labels |-> JInt(0)]

InitLookup ==
    /\ analysis = [isList |-> TRUE, factors |-> <<>>, index |-> 0]
    /\ grid_map = NoTable
    /\ lookPc = "startup"
    /\ look = NoLook

\* run, lines 131-136: the table is picked, or is all zeros
GridStartup ==
    /\ lookPc = "startup"
    /\ LET p == PickIndex(analysis)
       IN  grid_map' = IF p = -1 THEN ZeroTable
                       ELSE Sanitize(analysis.factors[p + 1].map)
    /\ lookPc' = "loop"
    /\ UNCHANGED <<analysis, look>>
    /\ UNCHANGED notLookup

\* run, lines 222-223: the cell of the position and its level
LookupLevel(x, y) ==
    /\ lookPc = "loop"
    /\ LET cell == cell_from_xy(x, y, max_x, max_y)[1]
           v == IF cell \in DOMAIN grid_map THEN grid_map[cell] ELSE JInt(0)
       IN  look' = [cell |-> cell, raised |-> IntRaises(v),
                    level |-> IF IntRaises(v) THEN -1 ELSE PyInt(v)]
    /\ UNCHANGED <<analysis, grid_map, lookPc>>
    /\ UNCHANGED notLookup

NextLookup ==
    \/ GridStartup
    \/ \E x \in LookXs, y \in LookYs : LookupLevel(x, y)

\* ------------------------------------------------------------------------
\* Main loop of the RaspberryPi process: RaspberryPi/main.py:197-237, with
\* the input thread changing the position
\* ------------------------------------------------------------------------
MaxMoves == 3

\* min_interval_s = 1.0 / 60.0 (line 199) and asyncio.sleep(0.005) (line
\* 237), in microseconds; a sleep may last twice as long
MinIntervalUs == 16667
SleepUs == 5000
SleepTimes == {SleepUs, 2 * SleepUs}

NoEnq == [x |-> -1, y |-> -1]

\* the variables outside MouseInput and the main loop
notMain == <<speechVars, posVars, clientVars, serverVars, cellVars,
             lookupVars, ctrlVars, loopVars>>

\* last_sent = 0.0 (line 198): the first test of line 205 is passed
InitMain ==
    /\ sinceSent = MinIntervalUs
    /\ lastEnq = NoEnq
    /\ nMoves = 0
    /\ sentMoves = 0

\* the input thread integrates a delta (mouse_input.py:96-100)
MainMove(ev) ==
    /\ nMoves < MaxMoves
    /\ LET dx == IF ev.code = "REL_X" THEN ev.value ELSE 0
           dy == IF ev.code = "REL_Y" THEN ev.value ELSE 0
           new_x == mouse_x + dx * scale_x
           new_y == mouse_y + dy * scale_y
       IN  /\ mouse_x' = Clamp(new_x, new_y)[1]
           /\ mouse_y' = Clamp(new_x, new_y)[2]
           /\ clampedLast' = ~InBounds(new_x, new_y)
    /\ mouse_moved' = TRUE
    /\ mutSince' = TRUE
    /\ nMoves' = nMoves + 1
    /\ UNCHANGED <<sinceSent, lastEnq, sentMoves>>
    /\ UNCHANGED <<mouse_dev, mouse_stop, mousePc, devState, recovery>>
    /\ PollHistUnchanged
    /\ UNCHANGED notMain

\* a main loop that reads the moved flag only once the interval has passed
MainIter_TestIntervalFirst(dt) ==
    /\ IF sinceSent >= MinIntervalUs /\ mouse_moved
       THEN /\ lastEnq' = [x |-> mouse_x, y |-> mouse_y]
            /\ sentMoves' = nMoves
            /\ sinceSent' = Min(MinIntervalUs, dt)
            /\ mouse_moved' = FALSE
            /\ mutSince' = FALSE
            /\ isMovedRet' = mouse_moved
            /\ isMovedExp' = mutSince
            /\ polled' = TRUE
       ELSE /\ sinceSent' = Min(MinIntervalUs, sinceSent + dt)
            /\ UNCHANGED <<lastEnq, sentMoves, mouse_moved, mutSince,
                           isMovedRet, isMovedExp, polled>>
    /\ UNCHANGED <<nMoves, mouse_x, mouse_y, clampedLast>>
    /\ UNCHANGED <<mouse_dev, mouse_stop, mousePc, devState, recovery>>
    /\ UNCHANGED notMain

\* run, lines 201-237: one iteration of the main loop and its sleep of dt:
\* is_moved() reads and clears the flag, and only if it was set and the
\* interval has passed is the position read and the message enqueued
MainIter(dt) ==
    /\ isMovedRet' = mouse_moved
    /\ isMovedExp' = mutSince
    /\ polled' = TRUE
    /\ mouse_moved' = FALSE
    /\ mutSince' = FALSE
    /\ IF mouse_moved /\ sinceSent >= MinIntervalUs
       THEN /\ lastEnq' = [x |-> mouse_x, y |-> mouse_y]
            /\ sentMoves' = nMoves
            /\ sinceSent' = Min(MinIntervalUs, dt)
       ELSE /\ sinceSent' = Min(MinIntervalUs, sinceSent + dt)
            /\ UNCHANGED <<lastEnq, sentMoves>>
    /\ UNCHANGED <<nMoves, mouse_x, mouse_y, clampedLast>>
    /\ UNCHANGED <<mouse_dev, mouse_stop, mousePc, devState, recovery>>
    /\ UNCHANGED notMain

NextMain ==
    \/ \E ev \in PosEvents : MainMove(ev)
    \/ \E dt \in SleepTimes : MainIter(dt)

\* ------------------------------------------------------------------------
\* Choice selection state machine: Computer/controllers/app_controller.py
\* ------------------------------------------------------------------------
MaxChoices == 3
MaxDelta == 4

\* the choice lists given to the controller (app.py:205), the indexes a
\* caller passes, in the list and on both sides of it, and the deltas
ChoiceNames == <<"Apple", "River", "Triangle", "Guitar">>
ChoiceLists == {SubSeq(ChoiceNames, 1, k) : k \in 0..MaxChoices}
Indexes == -1..MaxChoices
HighlightDeltas == -MaxDelta..MaxDelta

\* Optional[int]
None == <<>>
Some(i) == <<i>>

\* the variables outside AppController
notCtrl == <<speechVars, mouseVars, posVars, clientVars, serverVars,
             cellVars, lookupVars, mainVars, loopVars>>

\* min(max(i, 0), n - 1), lines 80, 88, 109, 122, 124
ClampIndex(i, n) == Min(Max(i, 0), n - 1)

\* a remainder that takes the sign of the dividend
PyMod_Truncated(a, n) == IF a >= 0 THEN a % n ELSE 0 - ((0 - a) % n)

\* Python's a % n for n > 0: the result is in 0..n-1 for every integer a
PyMod(a, n) == a % n

Called(op, arg) == lastOp' = [op |-> op, arg |-> arg, h0 |-> highlighted_index]

\* __init__, lines 30-39, with the choices of the AppState given
InitController(cs) ==
    /\ choices = cs
    /\ choosing = FALSE
    /\ highlighted_index = 0
    /\ chosen_index = None
    /\ lastOp = [op |-> "init", arg |-> 0, h0 |-> 0]

\* load_initial_image, lines 60-63 (the image file exists and loads)
LoadInitialImage ==
    /\ highlighted_index' = IF choices # <<>> THEN 0 ELSE -1
    /\ Called("load_initial_image", 0)
    /\ UNCHANGED <<choices, choosing, chosen_index>>
    /\ UNCHANGED notCtrl

\* enter_choose_mode, lines 73-81
EnterChooseMode ==
    /\ IF choosing
       THEN UNCHANGED <<choosing, highlighted_index>>
       ELSE /\ choosing' = TRUE
            /\ highlighted_index' =
                  IF choices # <<>>
                  THEN ClampIndex(highlighted_index, Len(choices))
                  ELSE highlighted_index
    /\ Called("enter_choose_mode", 0)
    /\ UNCHANGED <<choices, chosen_index>>
    /\ UNCHANGED notCtrl

\* the assignments of confirm_choice, lines 84-92, with h the highlighted
\* index at the call: the values of _chosen_index and _choosing after it
ConfirmedChosen(h) ==
    IF choosing /\ choices # <<>>
    THEN Some(ClampIndex(h, Len(choices)))
    ELSE chosen_index

ConfirmedChoosing == IF choosing /\ choices # <<>> THEN FALSE ELSE choosing

\* confirm_choice, lines 83-95
ConfirmChoice ==
    /\ chosen_index' = ConfirmedChosen(highlighted_index)
    /\ choosing' = ConfirmedChoosing
    /\ Called("confirm_choice", 0)
    /\ UNCHANGED <<choices, highlighted_index>>
    /\ UNCHANGED notCtrl

\* move_highlight, lines 97-104
MoveHighlight(delta) ==
    /\ highlighted_index' =
          IF choosing /\ choices # <<>>
          THEN PyMod(highlighted_index + delta, Len(choices))
          ELSE highlighted_index
    /\ Called("move_highlight", delta)
    /\ UNCHANGED <<choices, choosing, chosen_index>>
    /\ UNCHANGED notCtrl

\* the assignment of update_highlighted_choice, lines 108-111
Highlighted(index) ==
    IF choices # <<>> THEN ClampIndex(index, Len(choices)) ELSE highlighted_index

\* update_highlighted_choice, lines 107-112
UpdateHighlightedChoice(index) ==
    /\ highlighted_index' = Highlighted(index)
    /\ Called("update_highlighted_choice", index)
    /\ UNCHANGED <<choices, choosing, chosen_index>>
    /\ UNCHANGED notCtrl

\* update_choices, lines 115-129
UpdateChoices(cs) ==
    /\ choices' = cs
    /\ IF cs # <<>>
       THEN /\ highlighted_index' = ClampIndex(highlighted_index, Len(cs))
            /\ chosen_index' = IF chosen_index # None
                               THEN Some(ClampIndex(chosen_index[1], Len(cs)))
                               ELSE None
            /\ UNCHANGED choosing
       ELSE /\ highlighted_index' = -1
            /\ chosen_index' = None
            /\ choosing' = FALSE
    /\ Called("update_choices", Len(cs))
    /\ UNCHANGED notCtrl

\* on_choice_clicked, lines 139-146: update_highlighted_choice, then
\* confirm_choice in choosing mode, else the index is stored as given
OnChoiceClicked(index) ==
    /\ highlighted_index' = Highlighted(index)
    /\ IF choosing
       THEN /\ chosen_index' = ConfirmedChosen(Highlighted(index))
            /\ choosing' = ConfirmedChoosing
       ELSE /\ chosen_index' = Some(index)
            /\ UNCHANGED choosing
    /\ Called("on_choice_clicked", index)
    /\ UNCHANGED choices
    /\ UNCHANGED notCtrl

NextController ==
    \/ LoadInitialImage
    \/ EnterChooseMode
    \/ ConfirmChoice
    \/ \E d \in HighlightDeltas : MoveHighlight(d)
    \/ \E i \in Indexes : UpdateHighlightedChoice(i)
    \/ \E cs \in ChoiceLists : UpdateChoices(cs)
    \/ \E i \in Indexes : OnChoiceClicked(i)

\* ------------------------------------------------------------------------
\* Looping feedback channel: RaspberryPi/outputs/audio_output.py
\* ------------------------------------------------------------------------
LoopWorkers == 1..MaxLoopStarts

\* arguments of set_level: the level is a value that float() converts or
\* rejects, min_intensity and intensity_factor are numbers in hundredths
Levels == {JInt(-5), JInt(0), JReal(1), JInt(40), JReal(525), JInt(100),
           JInt(150), JNull}
MinIntensities == {-10, 20, 150}
IntensityFactors == {-50, 100, 150}
NoLevelArgs == <<JAbsent, 0, 0>>

\* _loop_worker, lines 464 and 467: frames per period
PeriodFrames == 1024

\* lengths of the WAV source, in frames: empty, one period, and one period
\* followed by a shorter one
WavLengths == {0, 1024, 1500}

NoWrite == [w |-> 0, from |-> 0, len |-> 0, silent |-> FALSE]

\* set_level, lines 403-410: float(level), 0.0 if it raises, limited to
\* 0..100; in tenths
LevelValue(level) ==
    LET lv == IF FloatRaises(level) THEN 0 ELSE Float(level)
    IN  Max(0, Min(1000, lv))

\* set_level, line 422, without the limits of lines 423-426
Gain_Unclamped(level, min_intensity, intensity_factor) ==
    LET mi == Max(0, Min(100, min_intensity))
        fa == Max(0, intensity_factor)
    IN  mi * 1000 + LevelValue(level) * fa

\* set_level without the limit of lines 418-419 on intensity_factor
Gain_FactorUnclamped(level, min_intensity, intensity_factor) ==
    LET mi == Max(0, Min(100, min_intensity))
    IN  Max(0, Min(100000, mi * 1000 + LevelValue(level) * intensity_factor))

\* set_level, lines 412-426: raw = lv / 100, gain = min_intensity + raw *
\* intensity_factor with both parameters and the result limited; in units
\* of 1/100000
Gain(level, min_intensity, intensity_factor) ==
    LET mi == Max(0, Min(100, min_intensity))
        fa == Max(0, intensity_factor)
    IN  Max(0, Min(100000, mi * 1000 + LevelValue(level) * fa))

\* round(n / d) for n >= 0, ties to the even integer
RoundHalfEven(n, d) ==
    LET q == n \div d
        r == n % d
    IN  IF 2 * r < d THEN q
        ELSE IF 2 * r > d THEN q + 1
        ELSE IF q % 2 = 0 THEN q ELSE q + 1

\* set_level, line 432: int(round(gain * 100))
MixerVol(gain) == RoundHalfEven(gain, 1000)

InitLoop ==
    /\ loop_gain = 0
    /\ last_mixer_vol = -1
    /\ has_mixer = TRUE
    /\ level_args = NoLevelArgs
    /\ loop_thread = 0
    /\ loop_stop_event = FALSE
    /\ lworkers = [w \in LoopWorkers |-> "unborn"]
    /\ loopOp = "none"
    /\ loopPc = "idle"
    /\ nLoopWorkers = 0
    /\ loop_stopped = FALSE
    /\ mixerCall = [called |-> FALSE, prev |-> -1]
    /\ wavFrames = 1500
    /\ loop_pos = [w \in LoopWorkers |-> 0]
    /\ lastWrite = NoWrite

loopCallVars == <<loop_thread, loop_stop_event, lworkers, loopOp, loopPc,
                  nLoopWorkers, loop_stopped>>

sinkVars == <<wavFrames, loop_pos, lastWrite>>

\* set_level with a mixer call on every invocation
SetLevel_AlwaysCalls(level, min_intensity, intensity_factor, volOk) ==
    LET gain == Gain(level, min_intensity, intensity_factor)
        vol == MixerVol(gain)
    IN  /\ loop_gain' = gain
        /\ last_mixer_vol' =
              IF has_mixer /\ volOk THEN vol ELSE last_mixer_vol
        /\ mixerCall' = [called |-> has_mixer, prev |-> last_mixer_vol]
        /\ level_args' = <<level, min_intensity, intensity_factor>>
        /\ UNCHANGED has_mixer
        /\ UNCHANGED loopCallVars
        /\ UNCHANGED sinkVars
        /\ UNCHANGED notLoop

\* set_level, lines 401-440; volOk: mixer.setvolume does not raise
SetLevel(level, min_intensity, intensity_factor, volOk) ==
    LET gain == Gain(level, min_intensity, intensity_factor)
        vol == MixerVol(gain)
    IN  /\ loop_gain' = gain
        /\ last_mixer_vol' =
              IF has_mixer /\ last_mixer_vol # vol /\ volOk
              THEN vol ELSE last_mixer_vol
        /\ mixerCall' = [called |-> has_mixer /\ last_mixer_vol # vol,
                         prev |-> last_mixer_vol]
        /\ level_args' = <<level, min_intensity, intensity_factor>>
        /\ UNCHANGED has_mixer
        /\ UNCHANGED loopCallVars
        /\ UNCHANGED sinkVars
        /\ UNCHANGED notLoop

NextLevel ==
    \E level \in Levels, mi \in MinIntensities, fa \in IntensityFactors,
       volOk \in BOOLEAN : SetLevel(level, mi, fa, volOk)

levelVars == <<loop_gain, last_mixer_vol, has_mixer, level_args, mixerCall>>

\* a thread that is no longer alive
LoopEnded == {"returned", "raised"}

\* is_running, lines 362-364
IsRunning == loop_thread # 0 /\ lworkers[loop_thread] \notin LoopEnded

\* start, lines 366-374: the path is checked (a missing file or another
\* suffix raises before anything changes); with force, stop() is called
LoopStartCall(force) ==
    /\ loopPc = "idle"
    /\ nLoopWorkers < MaxLoopStarts
    /\ loopOp' = "start"
    /\ loopPc' = IF force THEN "stop_enter" ELSE "locked"
    /\ loop_stopped' = FALSE
    /\ UNCHANGED <<loop_thread, loop_stop_event, lworkers, nLoopWorkers>>
    /\ UNCHANGED levelVars
    /\ UNCHANGED sinkVars
    /\ UNCHANGED notLoop

\* stop is called
LoopStopCall ==
    /\ loopPc = "idle"
    /\ loopOp' = "stop"
    /\ loopPc' = "stop_enter"
    /\ UNCHANGED <<loop_thread, loop_stop_event, lworkers, nLoopWorkers,
                   loop_stopped>>
    /\ UNCHANGED levelVars
    /\ UNCHANGED sinkVars
    /\ UNCHANGED notLoop

\* stop() returns: to its caller, or into start()
StopReturns ==
    /\ loopPc' = IF loopOp = "start" THEN "locked" ELSE "idle"
    /\ loopOp' = IF loopOp = "start" THEN "start" ELSE "none"
    /\ loop_stopped' = (loopOp = "stop")

\* stop, lines 389-393
LoopStopEnter ==
    /\ loopPc = "stop_enter"
    /\ IF loop_thread = 0
       THEN /\ StopReturns
            /\ UNCHANGED loop_stop_event
       ELSE /\ loop_stop_event' = TRUE
            /\ loopPc' = "join"
            /\ UNCHANGED <<loopOp, loop_stopped>>
    /\ UNCHANGED <<loop_thread, lworkers, nLoopWorkers>>
    /\ UNCHANGED levelVars
    /\ UNCHANGED sinkVars
    /\ UNCHANGED notLoop

\* stop, line 395: the worker has ended within the timeout
LoopJoinDone ==
    /\ loopPc = "join"
    /\ lworkers[loop_thread] \in LoopEnded
    /\ loopPc' = "stop_tail"
    /\ UNCHANGED <<loop_thread, loop_stop_event, lworkers, loopOp,
                   nLoopWorkers, loop_stopped>>
    /\ UNCHANGED levelVars
    /\ UNCHANGED sinkVars
    /\ UNCHANGED notLoop

\* stop, line 395: join(timeout=2.0) returns while the worker is alive
\* (it is blocked opening the device or in pcm.write)
LoopJoinTimeout ==
    /\ loopPc = "join"
    /\ lworkers[loop_thread] \notin LoopEnded
    /\ loopPc' = "stop_tail"
    /\ UNCHANGED <<loop_thread, loop_stop_event, lworkers, loopOp,
                   nLoopWorkers, loop_stopped>>
    /\ UNCHANGED levelVars
    /\ UNCHANGED sinkVars
    /\ UNCHANGED notLoop

\* stop, lines 397-399
LoopStopTail ==
    /\ loopPc = "stop_tail"
    /\ loop_thread' = 0
    /\ loop_stop_event' = FALSE
    /\ StopReturns
    /\ UNCHANGED <<lworkers, nLoopWorkers>>
    /\ UNCHANGED levelVars
    /\ UNCHANGED sinkVars
    /\ UNCHANGED notLoop

\* start, lines 376-386
LoopStartLocked ==
    /\ loopPc = "locked"
    /\ IF IsRunning
       THEN UNCHANGED <<loop_thread, loop_stop_event, lworkers, nLoopWorkers>>
       ELSE /\ nLoopWorkers' = nLoopWorkers + 1
            /\ loop_thread' = nLoopWorkers + 1
            /\ loop_stop_event' = FALSE
            /\ lworkers' = [lworkers EXCEPT ![nLoopWorkers + 1] = "opening"]
    /\ loopPc' = "idle"
    /\ loopOp' = "none"
    /\ UNCHANGED loop_stopped
    /\ UNCHANGED levelVars
    /\ UNCHANGED sinkVars
    /\ UNCHANGED notLoop

\* _loop_worker, lines 447-464: the file and the sink are opened
LoopWorkerOpen(w) ==
    /\ lworkers[w] = "opening"
    /\ lworkers' = [lworkers EXCEPT ![w] = "writing"]
    /\ UNCHANGED <<loop_thread, loop_stop_event, loopOp, loopPc,
                   nLoopWorkers, loop_stopped>>
    /\ UNCHANGED levelVars
    /\ UNCHANGED sinkVars
    /\ UNCHANGED notLoop

\* _loop_worker, lines 447-488: opening or writing raises; the finally
\* clause closes the sink
LoopWorkerFails(w) ==
    /\ lworkers[w] \in {"opening", "writing"}
    /\ lworkers' = [lworkers EXCEPT ![w] = "raised"]
    /\ UNCHANGED <<loop_thread, loop_stop_event, loopOp, loopPc,
                   nLoopWorkers, loop_stopped>>
    /\ UNCHANGED levelVars
    /\ UNCHANGED sinkVars
    /\ UNCHANGED notLoop

\* _loop_worker, lines 466 and 483-488: the while test finds the event set,
\* the worker closes the sink and returns (while it is clear, an iteration
\* writes one period and leaves the state as it is)
LoopWorkerExit(w) ==
    /\ lworkers[w] = "writing"
    /\ loop_stop_event
    /\ lworkers' = [lworkers EXCEPT ![w] = "returned"]
    /\ UNCHANGED <<loop_thread, loop_stop_event, loopOp, loopPc,
                   nLoopWorkers, loop_stopped>>
    /\ UNCHANGED levelVars
    /\ UNCHANGED sinkVars
    /\ UNCHANGED notLoop

\* _loop_worker with a worker that stops looping when the gain is 0
LoopWorkerIter_PauseAtZero(w) ==
    /\ lworkers[w] = "writing"
    /\ ~loop_stop_event
    /\ LET n == Min(PeriodFrames, wavFrames - loop_pos[w])
       IN  IF n = 0
           THEN /\ loop_pos' = [loop_pos EXCEPT ![w] = 0]
                /\ UNCHANGED <<lastWrite, lworkers>>
           ELSE IF loop_gain <= 0
           THEN /\ lworkers' = [lworkers EXCEPT ![w] = "returned"]
                /\ UNCHANGED <<loop_pos, lastWrite>>
           ELSE /\ loop_pos' = [loop_pos EXCEPT ![w] = @ + n]
                /\ lastWrite' = [w |-> w, from |-> loop_pos[w], len |-> n,
                                 silent |-> FALSE]
                /\ UNCHANGED lworkers
    /\ UNCHANGED <<loop_thread, loop_stop_event, loopOp, loopPc,
                   nLoopWorkers, loop_stopped, wavFrames>>
    /\ UNCHANGED levelVars
    /\ UNCHANGED notLoop

\* _loop_worker, lines 466-479: one iteration of the while loop with the
\* event clear: read up to one period; at the end of the source rewind;
\* otherwise write as many frames as were read, zeros if the gain is 0
LoopWorkerIter(w) ==
    /\ lworkers[w] = "writing"
    /\ ~loop_stop_event
    /\ LET n == Min(PeriodFrames, wavFrames - loop_pos[w])
       IN  IF n = 0
           THEN /\ loop_pos' = [loop_pos EXCEPT ![w] = 0]
                /\ UNCHANGED lastWrite
           ELSE /\ loop_pos' = [loop_pos EXCEPT ![w] = @ + n]
                /\ lastWrite' = [w |-> w, from |-> loop_pos[w], len |-> n,
                                 silent |-> (loop_gain <= 0)]
    /\ UNCHANGED <<loop_thread, loop_stop_event, lworkers, loopOp, loopPc,
                   nLoopWorkers, loop_stopped, wavFrames>>
    /\ UNCHANGED levelVars
    /\ UNCHANGED notLoop

\* levels set while the loop runs (main.py:168, 230, 246), with
\* min_intensity 0 and intensity_factor 1
LoopLevels == {JInt(0), JInt(40)}

NextLoop ==
    \/ \E force \in BOOLEAN : LoopStartCall(force)
    \/ LoopStopCall
    \/ LoopStopEnter
    \/ LoopJoinDone
    \/ LoopJoinTimeout
    \/ LoopStopTail
    \/ LoopStartLocked
    \/ \E w \in LoopWorkers : LoopWorkerOpen(w)
    \/ \E w \in LoopWorkers : LoopWorkerFails(w)
    \/ \E w \in LoopWorkers : LoopWorkerExit(w)
    \/ \E w \in LoopWorkers : LoopWorkerIter(w)
    \/ \E level \in LoopLevels : SetLevel(level, 0, 100, TRUE)

\* ------------------------------------------------------------------------
\* Specifications
\* ------------------------------------------------------------------------
Init ==
    /\ InitSpeech /\ InitMouse /\ InitPos /\ InitClient(QueueCap)
    /\ InitServer
    /\ InitCell /\ InitLookup
    /\ InitMain
    /\ InitController(<<>>) /\ InitLoop

InitQueue ==
    /\ InitSpeech /\ InitMouse /\ InitPos /\ InitClient(maxsize)
    /\ InitServer
    /\ InitCell /\ InitLookup
    /\ InitMain
    /\ InitController(<<>>) /\ InitLoop

\* the speech channel runs in the Computer process: the environment of the
\* RaspberryPi components is held fixed
InitSpeaker == Init /\ devState = "ok" /\ serverUp

SpecSpeech == InitSpeaker /\ [][NextSpeech]_vars

SpecMouse == Init /\ [][NextMouse]_vars

\* the input thread is a daemon thread of the RaspberryPi process: it is
\* scheduled whenever it can run, its time.sleep returns, and a read on a
\* handle whose device is gone raises; events and device changes are the
\* environment's and get no fairness
InitIntegrator == Init /\ api_key /\ serverUp

MouseFairness ==
    /\ WF_vars(MouseLoop)
    /\ WF_vars(MouseSleepDone)
    /\ WF_vars(MouseReadError)

FairSpecMouse == InitIntegrator /\ [][NextMouse]_vars /\ MouseFairness

\* the three threads that use MouseInput._lock
InitLocked == Init /\ api_key /\ devState = "ok" /\ serverUp

SpecLock == InitLocked /\ [][NextPos]_vars

SpecClient == Init /\ [][NextClient]_vars

SpecQueue == InitQueue /\ [][NextQueue]_vars

\* the Receiver runs in the Computer process: the environment of the other
\* components is held fixed
InitReceiver == Init /\ api_key /\ devState = "ok" /\ serverUp

SpecServer == InitReceiver /\ [][NextServer]_vars

\* cell_from_xy applied to every input of CellInputs
InitCellInputs ==
    /\ InitSpeech /\ InitMouse /\ InitPos /\ InitClient(QueueCap)
    /\ InitServer
    /\ InitLookup
    /\ InitMain
    /\ InitController(<<>>) /\ InitLoop
    /\ api_key /\ devState = "ok" /\ serverUp
    /\ cell_args \in CellInputs
    /\ cell_ret = NoCell

SpecCell == InitCellInputs /\ [][NextCell]_vars

\* the looping channel runs in the RaspberryPi process, with or without a
\* mixer (audio_output.py:352)
InitChannel ==
    /\ InitSpeech /\ InitMouse /\ InitPos /\ InitClient(QueueCap)
    /\ InitServer
    /\ InitCell /\ InitLookup
    /\ InitMain
    /\ InitController(<<>>)
    /\ api_key /\ devState = "ok" /\ serverUp
    /\ loop_gain = 0
    /\ last_mixer_vol = -1
    /\ has_mixer \in BOOLEAN
    /\ level_args = NoLevelArgs
    /\ loop_thread = 0
    /\ loop_stop_event = FALSE
    /\ lworkers = [w \in LoopWorkers |-> "unborn"]
    /\ loopOp = "none"
    /\ loopPc = "idle"
    /\ nLoopWorkers = 0
    /\ loop_stopped = FALSE
    /\ mixerCall = [called |-> FALSE, prev |-> -1]
    /\ wavFrames \in WavLengths
    /\ loop_pos = [w \in LoopWorkers |-> 0]
    /\ lastWrite = NoWrite

\* startup and lookup applied to every analysis result of Analyses
InitAnalyses ==
    /\ InitSpeech /\ InitMouse /\ InitPos /\ InitClient(QueueCap)
    /\ InitServer /\ InitCell
    /\ InitMain
    /\ InitController(<<>>) /\ InitLoop
    /\ api_key /\ devState = "ok" /\ serverUp
    /\ analysis \in Analyses
    /\ grid_map = NoTable
    /\ lookPc = "startup"
    /\ look = NoLook

SpecLookup == InitAnalyses /\ [][NextLookup]_vars

\* the main loop is a task of the asyncio event loop: each sleep returns
\* and the next iteration runs; movements are the environment's
InitMainLoop == Init /\ api_key /\ devState = "ok" /\ serverUp

SpecMain == InitMainLoop /\ [][NextMain]_vars

FairSpecMain == SpecMain /\ WF_vars(\E dt \in SleepTimes : MainIter(dt))

\* the controller is built on an AppState with any of the choice lists
InitChoices ==
    /\ InitSpeech /\ InitMouse /\ InitPos /\ InitClient(QueueCap)
    /\ InitServer
    /\ InitCell /\ InitLookup
    /\ InitMain /\ InitLoop
    /\ api_key /\ devState = "ok" /\ serverUp
    /\ \E cs \in ChoiceLists : InitController(cs)

SpecController == InitChoices /\ [][NextController]_vars

SpecLevel == InitChannel /\ [][NextLevel]_vars

SpecLoop == InitChannel /\ [][NextLoop]_vars

\* the asyncio event loop runs every task that is ready: a connection
\* attempt completes, a sleep returns, a ready task is resumed
ClientFairness ==
    /\ WF_vars(RunBegin)
    /\ WF_vars(Connect)
    /\ WF_vars(SleepDone)
    /\ WF_vars(WaitReturns)
    /\ WF_vars(CloseDone)
    /\ WF_vars(ProducerTake)
    /\ WF_vars(ProducerSend)
    /\ WF_vars(ConsumerEnd)

FairSpecClient == SpecClient /\ ClientFairness

\* the server thread runs, and its event loop resumes every handler that is
\* ready and processes a scheduled loop.stop
ServerFairness ==
    /\ WF_vars(ThreadCreateLoop)
    /\ WF_vars(ThreadServe)
    /\ WF_vars(ServePollExit)
    /\ WF_vars(ThreadEnd)
    /\ WF_vars(LoopStops)
    /\ \A c \in Conns : WF_vars(HandlerExit(c))

FairSpecServer == SpecServer /\ ServerFairness

\* ------------------------------------------------------------------------
\* Speech channel: properties
\* ------------------------------------------------------------------------
Last(s) == s[Len(s)]
InFlight(u) == workers[u].pc \notin {"none", "done"}

\* C1: if speak(A) is followed by speak(B) before A's synthesis completes,
\* A's worker never starts playback; and a worker starts playback only if
\* the generation it captured equals the current generation at the moment
\* playback starts.
C1_StaleWorkerNeverStartsPlayback ==
    /\ \A u \in Utterances :
          workers[u].late => (~workers[u].started /\ workers[u].pc \notin {"load", "play"})
    /\ ~staleStart

\* the first half of C1 alone: a worker superseded before its synthesis
\* completed never reaches load or play
SupersededBeforeSynthesisNeverPlays ==
    \A u \in Utterances :
        workers[u].late => (~workers[u].started /\ workers[u].pc \notin {"load", "play"})

\* C2: once every worker has finished, with the channel enabled throughout
\* and no failure, the utterance last started on the sink is the one of the
\* most recent speak() call.
C2_LastStartedIsMostRecent ==
    ( /\ nSpoken > 0
      /\ \A u \in Utterances : ~InFlight(u)
      /\ \A c \in Callers : callerPc[c] = "idle"
      /\ nToggles = 0 /\ tts_enabled /\ ~anyFail )
    => (playLog # <<>> /\ Last(playLog) = nSpoken)

C17_RejectedSpeakIsNoOp ==
    [][(rejected' # "none") =>
           /\ tts_generation' = tts_generation
           /\ music_playing' = music_playing
           /\ music_loaded' = music_loaded
           /\ workers' = workers
           /\ nSpoken' = nSpoken
           /\ callerPc' = callerPc]_vars

\* speak("  ") has just returned while an utterance is playing
C17_Witness ==
    /\ rejected = "empty"
    /\ music_playing # 0
    /\ tts_generation > 0

\* a thread leaves the locked section of speak() or _toggle_tts()
LeavesLock(c) ==
    callerPc[c] \in {"speak_lock", "toggle_lock"} /\ callerPc'[c] = "idle"

\* C18: the generation counter never decreases, is incremented exactly once
\* by each accepted speak() call and by each explicit disable, and by
\* nothing else; the increment, the capture and the hard-stop are one step,
\* so speak() calls, also concurrent ones, capture distinct generations.
C18_GenerationCountsCalls ==
    /\ [][ /\ tts_generation' >= tts_generation
           /\ (\E c \in Callers : LeavesLock(c)) =>
                  tts_generation' = tts_generation + 1
           /\ (\A c \in Callers : ~LeavesLock(c)) =>
                  tts_generation' = tts_generation
           /\ \A c \in Callers :
                  (callerPc[c] = "speak_lock" /\ callerPc'[c] = "idle") =>
                      /\ workers'[nSpoken'].gen = tts_generation'
                      /\ pygame_ready => music_playing' = 0 ]_vars
    /\ [](\A u, v \in Utterances :
              (u # v /\ workers[u].pc # "none" /\ workers[v].pc # "none")
                  => workers[u].gen # workers[v].gen)

\* two threads were inside speak() at once, and after an explicit disable
\* in between their workers hold the generations 1 and 3
C18_Witness ==
    /\ speakOverlap
    /\ nSpoken = 2
    /\ workers[1].gen = 1
    /\ workers[2].gen = 3
    /\ tts_generation = 3

\* a step of worker u in which an audio or synthesis call raised:
\* _ensure_pygame_audio, synthesis, load or play
WorkerRaised(u) ==
    /\ workers'[u].pc = "done"
    /\ \/ workers[u].pc \in {"pygame", "convert", "load"}
       \/ workers[u].pc = "play" /\ ~workers'[u].started

\* C19: a failure in a speech worker abandons only that utterance: no
\* playback of it starts, the generation counter is unchanged by the
\* failure and the channel stays enabled for later speak() calls.
C19_WorkerFailureAbandonsUtteranceOnly ==
    [][\A u \in Utterances :
           WorkerRaised(u) =>
               /\ ~workers'[u].started
               /\ playLog' = playLog
               /\ tts_generation' = tts_generation
               /\ tts_enabled' = tts_enabled]_vars

\* ------------------------------------------------------------------------
\* Position integrator: properties
\* ------------------------------------------------------------------------
\* C4: after any sequence of delta integrations and set_absolute_position
\* calls the position satisfies min_x <= x <= max_x and min_y <= y <= max_y.
C4_PositionWithinBounds == InBounds(mouse_x, mouse_y)

\* a mutation whose raw result lay outside the bounds has been applied
C4_Witness == mutSince /\ clampedLast /\ mouse_x = max_x /\ mouse_y = min_y

\* C5: is_moved() returns true exactly when at least one mutation happened
\* since the previous call, so once per batch of mutations and false on
\* every later call until the next mutation.
C5_IsMovedOncePerBatch ==
    /\ polled => (isMovedRet = isMovedExp)
    /\ mouse_moved = mutSince

\* is_moved() returned true for a batch made by the input thread, and the
\* flag is clear again
C5_Witness ==
    polled /\ isMovedRet /\ ~mouse_moved /\ mousePc = "reading"

\* ------------------------------------------------------------------------
\* Producer endpoint: properties
\* ------------------------------------------------------------------------
Range(q) == {q[i] : i \in 1..Len(q)}
LinkFaulty == linkSt \in {"closed_ok", "broken"}

\* C6: send_json on a full queue removes the oldest message and appends the
\* new one at the tail; after N+1 pushes with no drain message 0 is absent
\* and message N is present; the queue never holds more than N messages.
C6_OverflowDropsOldest ==
    /\ [](Len(send_q) <= q_maxsize)
    /\ []((nSent = q_maxsize + 1 /\ ~drained) =>
            (0 \notin Range(send_q) /\ q_maxsize \in Range(send_q)))
    /\ [][(nSent' = nSent + 1 /\ Len(send_q) = q_maxsize) =>
            send_q' = Append(Tail(send_q), nSent)]_vars
    /\ [][nSent' = nSent + 1 => send_q'[Len(send_q')] = nSent]_vars

\* N+1 messages have been pushed with no drain on the queue of capacity 200
C6_Witness ==
    q_maxsize = maxsize /\ nSent = q_maxsize + 1 /\ ~drained /\ Len(send_q) = q_maxsize

\* C7: after a failed connection attempt the Producer sleeps and tries
\* again for as long as stop() has not been called; if from then on the
\* server stays reachable (and the established connection is not closed)
\* the Producer becomes connected and drains the messages in its queue.
C7_RetryUntilConnected ==
    /\ (runPc = "sleeping") ~> (runPc = "connecting" \/ ws_stop)
    /\ []((runPc = "sleeping" /\ [](serverUp /\ ~ws_stop /\ ~LinkFaulty))
            => <>(is_connected /\ send_q = <<>> /\ inflight = -1))

\* after a failed attempt the Producer is connected and has written the
\* queued messages
C7_Witness ==
    hadFailure /\ is_connected /\ linkSt = "open" /\ nSent > 0
    /\ lastWritten = nSent - 1 /\ send_q = <<>>

\* C8: after an established connection is lost the Producer waits the
\* reconnect delay before the next connection attempt.
C8_DelayAfterConnectionLoss ==
    [][(runPc = "closing" /\ runPc' # "closing") => runPc' \in {"sleeping", "done"}]_vars

\* C9: once the connection is closed (drain or listen task failed, or the
\* peer closed) the Producer leaves Connected: both tasks are ended and the
\* connection is torn down.
C9_NeverStaysConnectedOnClosedLink ==
    (is_connected /\ LinkFaulty) ~> ~is_connected

\* ------------------------------------------------------------------------
\* Receiver endpoint: properties
\* ------------------------------------------------------------------------
IsNumber(val) == val.t \in {"int", "real"}
WellFormedMousePos(rec) ==
    /\ rec.kind = "object" /\ rec.type = "mouse_pos"
    /\ IsNumber(rec.x) /\ IsNumber(rec.y) /\ IsNumber(rec.w) /\ IsNumber(rec.h)

\* C10: a JSON object with type "mouse_pos" and numeric x, y, w, h causes
\* exactly one position callback with those four values; a record with no
\* type or an unknown type causes no callback and leaves the connection open.
C10_MousePosDispatchedOnce ==
    LET rec == handled.rec
    IN  /\ WellFormedMousePos(rec) =>
              /\ handled.ncalls = 1
              /\ handled.args = <<rec.x.v, rec.y.v, rec.w.v, rec.h.v>>
              /\ handled.open
        /\ (rec.kind = "object" /\ rec.type \in {"absent", "unknown"}) =>
              /\ handled.ncalls = 0
              /\ handled.open

\* a well-formed mouse_pos with distinct field values has been dispatched
C10_Witness ==
    /\ WellFormedMousePos(handled.rec)
    /\ handled.rec.x # handled.rec.y
    /\ handled.ncalls = 1
    /\ handled.args = <<70, 25, 1000, -5>>

\* a field value that is present and is not a JSON number
NotNumeric(val) == val.t \in {"str", "numstr", "null"}

\* text that is not JSON, JSON that is not an object, or a mouse_pos with a
\* field that is not numeric
Malformed(rec) ==
    \/ rec.kind \in {"notjson", "nonobject"}
    \/ /\ rec.kind = "object" /\ rec.type = "mouse_pos"
       /\ \/ NotNumeric(rec.x) \/ NotNumeric(rec.y)
          \/ NotNumeric(rec.w) \/ NotNumeric(rec.h)

\* C11: a malformed record (text that is not JSON, JSON that is not an
\* object, a mouse_pos with a non-numeric x, y, w or h) is skipped: it causes
\* no position callback and the connection stays open for the records that
\* follow it.
C11_MalformedRecordSkipped ==
    Malformed(handled.rec) => (handled.ncalls = 0 /\ handled.open)

\* the connections whose handler is running on an open connection
ActiveConns == {c \in Conns : connSt[c] = "open"}

\* C12: at every moment the Receiver handles at most one connection, so
\* callbacks never come from two connections active at the same time.
C12_AtMostOneActiveConnection == Cardinality(ActiveConns) <= 1

\* C13: for each accepted connection, on_client_state(True) comes before any
\* position callback of that connection, and once the connection has ended
\* the true notification is eventually followed by exactly one false
\* notification.
C13_StateNotificationsPaired ==
    /\ [](\A c \in Conns :
             stateLog[c] \in {<<>>, <<TRUE>>, <<TRUE, FALSE>>})
    /\ [][(handled' # handled) => (stateLog[handled'.conn] = <<TRUE>>)]_vars
    /\ \A c \in Conns :
           (connSt[c] \in {"ending", "abandoned"})
               ~> (stateLog[c] = <<TRUE, FALSE>>)

\* C14: after stop() the server thread eventually ends, whether stop() came
\* before the loop was created, while idle or during an active connection,
\* and once the thread has ended no position callback is invoked.
C14_StopTerminatesServer ==
    /\ srv_stop_evt ~> (srvPc \in {"none", "ended"})
    /\ [][(srvPc \in {"none", "ended"}) => (handled' = handled)]_vars

\* stop() came during an active connection and the thread has ended
C14_Witness ==
    /\ srv_stop_evt
    /\ srvPc = "ended"
    /\ \E c \in Conns : connSt[c] = "abandoned" /\ handled.conn = c

\* ------------------------------------------------------------------------
\* Grid cell resolver: properties
\* ------------------------------------------------------------------------
\* clamp(i, 0, 5)
Clamp05(i) == IF i < 0 THEN 0 ELSE IF i > 5 THEN 5 ELSE i

\* C15: cell_from_xy(x, y, w, h) returns column clamp(floor(x / w * 6), 0, 5),
\* row clamp(floor(y / h * 6), 0, 5) and the label made of the column letter
\* A..F and the row number 1..6, for all integer x and y; (0, 0) in 100x100
\* gives A1, (99, 99) gives F6 and x = 150 gives the last column.
C15_CellFromXY ==
    LET x == cell_args[1]
        y == cell_args[2]
        w == cell_args[3]
        h == cell_args[4]
        Letters == <<"A", "B", "C", "D", "E", "F">>
        Digits == <<"1", "2", "3", "4", "5", "6">>
    IN  (cell_ret # NoCell /\ w >= 1 /\ h >= 1) =>
            /\ cell_ret[3] = Clamp05((x * 6) \div w)
            /\ cell_ret[2] = Clamp05((y * 6) \div h)
            /\ cell_ret[1] = Letters[cell_ret[3] + 1] \o Digits[cell_ret[2] + 1]
            /\ (x = 0 /\ y = 0 /\ w = 100 /\ h = 100) => cell_ret[1] = "A1"
            /\ (x = 99 /\ y = 99 /\ w = 100 /\ h = 100) => cell_ret[1] = "F6"
            /\ (x = 150 /\ w = 100) => cell_ret[3] = 5

\* a position left of and below the 100x100 viewport has been resolved
C15_Witness ==
    /\ cell_args = <<-1, 1101, 100, 100>>
    /\ cell_ret = <<"A6", 5, 0>>

\* ------------------------------------------------------------------------
\* Looping feedback channel: properties
\* ------------------------------------------------------------------------
\* C16: set_level(level, min_intensity, intensity_factor) sets
\* gain = clamp(m + clamp(level, 0, 100) / 100 * f, 0, 1) with
\* m = clamp(min_intensity, 0, 1) and f = max(intensity_factor, 0); with
\* min_intensity 0.2 and intensity_factor 1.5, level 0 gives 0.2, level 40
\* gives 0.8 and level 100 gives 1.0.
C16_GainFormula ==
    LET level == level_args[1]
        mi == level_args[2]
        fa == level_args[3]
        m == IF mi < 0 THEN 0 ELSE IF mi > 100 THEN 100 ELSE mi
        f == IF fa < 0 THEN 0 ELSE fa
        l == IF level.v < 0 THEN 0 ELSE IF level.v > 1000 THEN 1000
             ELSE level.v
        g == m * 1000 + l * f
    IN  (level_args # NoLevelArgs /\ IsNumber(level)) =>
            /\ loop_gain = IF g < 0 THEN 0 ELSE IF g > 100000 THEN 100000
                           ELSE g
            /\ (mi = 20 /\ fa = 150 /\ level = JInt(0)) => loop_gain = 20000
            /\ (mi = 20 /\ fa = 150 /\ level = JInt(40)) => loop_gain = 80000
            /\ (mi = 20 /\ fa = 150 /\ level = JInt(100)) =>
                   loop_gain = 100000

\* set_level(40, min_intensity=0.2, intensity_factor=1.5) has been called
C16_Witness ==
    /\ level_args = <<JInt(40), 20, 150>>
    /\ loop_gain = 80000

\* the loop workers that hold the sink open and write to it
SinkWriters == {w \in LoopWorkers : lworkers[w] = "writing"}

\* C20: at every moment at most one loop worker writes to the audio sink,
\* and after stop() has returned no loop worker is left: none writes to the
\* sink and the sink is closed.
C20_OneWriterNoneAfterStop ==
    /\ Cardinality(SinkWriters) <= 1
    /\ loop_stopped =>
           \A w \in LoopWorkers : lworkers[w] \in {"unborn"} \cup LoopEnded

\* worker w makes one iteration of its while loop
Iterates(w) == lworkers[w] = "writing" /\ loop_pos'[w] # loop_pos[w]

\* C21: while the gain is 0 the loop worker keeps running: each iteration
\* reads the next frames, rewinds at the end of the source and writes as
\* many silent frames as it read; the worker stays in its loop, an iteration
\* is always possible, and it returns only after stop() has set the event.
C21_ZeroGainKeepsLooping ==
    /\ [][\A w \in LoopWorkers :
              (Iterates(w) /\ loop_gain = 0) =>
                  /\ lworkers'[w] = "writing"
                  /\ IF loop_pos[w] = wavFrames
                     THEN loop_pos'[w] = 0 /\ lastWrite' = lastWrite
                     ELSE /\ loop_pos'[w] > loop_pos[w]
                          /\ lastWrite' =
                                [w |-> w, from |-> loop_pos[w],
                                 len |-> loop_pos'[w] - loop_pos[w],
                                 silent |-> TRUE]]_vars
    /\ [][\A w \in LoopWorkers :
              (lworkers[w] = "writing" /\ lworkers'[w] = "returned")
                  => loop_stop_event]_vars
    /\ [](\A w \in LoopWorkers :
              (lworkers[w] = "writing" /\ ~loop_stop_event /\ loop_gain = 0)
                  => ENABLED LoopWorkerIter(w))

\* with the gain at 0 a worker has written the shorter second period of the
\* source as silence
C21_Witness ==
    /\ loop_gain = 0
    /\ wavFrames = 1500
    /\ lastWrite = [w |-> 1, from |-> 1024, len |-> 476, silent |-> TRUE]
    /\ lworkers[1] = "writing"

\* C22: start(wav) plays the source from its first frame and rewinds to the
\* first frame each time the source is exhausted, without ending by itself;
\* start() while a loop is running stops that loop, so that once start()
\* has returned only the worker it started is alive.
C22_StartLoopsFromFirstFrame ==
    /\ [][\A w \in LoopWorkers :
              /\ (lworkers[w] = "opening" /\ lworkers'[w] = "writing")
                     => loop_pos'[w] = 0
              /\ (Iterates(w) /\ loop_pos[w] = wavFrames) => loop_pos'[w] = 0
              /\ (lworkers[w] = "writing" /\ lworkers'[w] = "returned")
                     => loop_stop_event]_vars
    /\ [](\A w \in LoopWorkers :
              (loopPc = "idle" /\ loop_thread # 0 /\ w # loop_thread)
                  => lworkers[w] \in {"unborn"} \cup LoopEnded)

\* C23: set_level calls the hardware mixer only when the rounded volume
\* differs from the last volume the mixer accepted; a set_level that yields
\* the same volume makes no mixer call, and the software gain is updated
\* in either case.
C23_MixerCalledOnlyOnChange ==
    LET level == level_args[1]
        mi == level_args[2]
        fa == level_args[3]
        percent == (loop_gain + 500) \div 1000
        tie == loop_gain % 1000 = 500
        vol == IF tie /\ percent % 2 = 1 THEN percent - 1 ELSE percent
    IN  (level_args # NoLevelArgs) =>
            /\ mixerCall.called <=> (has_mixer /\ mixerCall.prev # vol)
            /\ loop_gain = Gain(level, mi, fa)

\* set_level(0.1, 0, 1.0) after set_level(0, ...): another gain, the same
\* volume 0, no mixer call
C23_Witness ==
    /\ has_mixer
    /\ level_args = <<JReal(1), -10, 100>>
    /\ loop_gain = 100
    /\ last_mixer_vol = 0
    /\ mixerCall = [called |-> FALSE, prev |-> 0]

\* a step of _run in which opening the device or reading it raises
\* (mouse_input.py:72, 75 with the except branches 102-113)
ReadFailure ==
    \/ /\ mousePc = "reading"
       /\ mouse_dev = "dead"
       /\ mousePc' # mousePc
    \/ /\ mousePc = "loop"
       /\ ~mouse_stop
       /\ mouse_dev = "none"
       /\ devState # "ok"
       /\ mousePc' # mousePc

\* C24: a device read failure (device absent, permission denied, I/O
\* error) does not end the input task and leaves the integrated position
\* and the moved flag unchanged: the task drops the device handle and goes
\* to the wait-and-retry state.
C24_ReadFailureWaitsAndRetries ==
    [][ReadFailure =>
         /\ mousePc' = "sleep"
         /\ mouse_dev' = "none"
         /\ mouse_x' = mouse_x
         /\ mouse_y' = mouse_y
         /\ mouse_moved' = mouse_moved]_vars

\* a read failed on an open handle after the position had been moved away
\* from the start position, and the task is waiting to retry
C24_Witness ==
    /\ recovery = "failed"
    /\ mousePc = "sleep"
    /\ mouse_dev = "none"
    /\ devState = "ioerr"
    /\ mouse_moved
    /\ mouse_x # start_x

\* the step of _run that opens the device (mouse_input.py:71-72)
Reopens == mouse_dev = "none" /\ mouse_dev' = "open"

\* C25: after a device read failure, if the device is available again and
\* stop() has not been called, the input task eventually reopens the
\* device; reopening leaves the position as it was, so the deltas that
\* follow are integrated starting from the last known position.
C25_ReopensAfterFailure ==
    /\ (recovery = "failed" /\ devState = "ok" /\ ~mouse_stop)
          ~> (mouse_dev = "open" \/ devState # "ok" \/ mouse_stop)
    /\ [][Reopens => (mouse_x' = mouse_x /\ mouse_y' = mouse_y)]_vars

\* the device was reopened after a failure and a delta was integrated
\* from a position other than the start position
C25_Witness ==
    /\ recovery = "integrated"
    /\ mouse_dev = "open"
    /\ mouse_moved
    /\ mouse_x \notin {start_x, min_x, max_x}

\* C26: get_absolute_position() returns a pair that was the integrated
\* position at one instant: the x and the y it returns were stored by the
\* same mutation (the constructor counting as mutation 0), and the pair is
\* the position that mutation left.
C26_PositionReadIsAtomic ==
    posRet # NoPosRet =>
        /\ posRet.xs = posRet.ys
        /\ posRet.pos = posLog[posRet.xs + 1]

\* a pair was returned after two mutations, one by each writer, and
\* another mutation is half done
C26_Witness ==
    /\ posRet # NoPosRet
    /\ posRet.xs = 2
    /\ posRet.pos \notin {posLog[1], posLog[2]}
    /\ \E t \in PosWriters : posPc[t] = "x_done"

\* C27: the messages written to the socket are in enqueue order: over any
\* sequence of send_json calls, overflows, disconnections and reconnects
\* the written sequence is a subsequence of the sequence of send_json
\* calls (message k being the k-th call), with no message reordered and
\* none written twice.
C27_WrittenInEnqueueOrder ==
    /\ \A i \in 1..Len(written) : written[i] \in 0..(nSent - 1)
    /\ \A i, j \in 1..Len(written) : i < j => written[i] < written[j]

\* after an overflow, a connection fault and a reconnect, the last message
\* has been written on the new connection and an earlier one never was
C27_Witness ==
    /\ nFaults >= 1
    /\ linkSt = "open"
    /\ Len(written) >= 2
    /\ Len(written) < nSent
    /\ written[Len(written)] = nSent - 1
    /\ send_q = <<>>
    /\ inflight = -1

\* MainWindow._on_remote_mouse_pos, line 137: whether the slot connected to
\* the position callback goes on to update the point
OnRemoteMousePosUpdates(rectIsNull, w, h) ==
    ~(rectIsNull \/ w <= 0 \/ h <= 0)

\* a mouse_pos record whose fields all convert to numbers and whose w or h
\* (1 when absent, line 94-95) is not greater than 0
NonPositiveViewport(rec) ==
    /\ rec.kind = "object" /\ rec.type = "mouse_pos"
    /\ ~FloatRaises(Get(rec.x, 0)) /\ ~FloatRaises(Get(rec.y, 0))
    /\ ~FloatRaises(Get(rec.w, 1)) /\ ~FloatRaises(Get(rec.h, 1))
    /\ (Float(Get(rec.w, 1)) <= 0 \/ Float(Get(rec.h, 1)) <= 0)

\* C28: a mouse_pos record whose w or h is not greater than 0 is dropped
\* as a malformed message: the Receiver's position callback is not invoked
\* for it and the connection stays open.
C28_NonPositiveViewportDropped ==
    NonPositiveViewport(handled.rec) => (handled.ncalls = 0 /\ handled.open)

\* the drain task or the listen task of a connection has not ended
TasksAlive == producerSt \in {"running", "sending"} \/ consumerSt = "running"

\* C29: after stop() the run task eventually ends, no new connection
\* attempt is started, and no drain or listen task stays running or takes
\* another message from the send queue, whether stop() came while
\* connecting, while connected or during the reconnect delay.
C29_StopEndsRunAndTasks ==
    /\ ws_stop ~> (runPc \in {"none", "done"})
    /\ [][(ws_stop /\ runPc # "connecting") => (runPc' # "connecting")]_vars
    /\ ws_stop ~> ~TasksAlive
    /\ [][ws_stop => (inflight' = inflight \/ inflight' = -1)]_vars

\* C30: looking up the intensity of a resolved cell never fails: a cell
\* label that is absent from the grid map of the analysis result gives
\* intensity 0, and when the analysis result holds no usable grid map the
\* table used is all zeros.
C30_LookupNeverFails ==
    LET p == PickIndex(analysis)
    IN  /\ (lookPc = "loop" /\ p = -1) => grid_map = ZeroTable
        /\ look # NoLook =>
               /\ ~look.raised
               /\ look.level \in 0..100
               /\ (p = -1) => look.level = 0
               /\ (p # -1 /\ look.cell \notin DOMAIN analysis.factors[p + 1].map)
                      => look.level = 0

\* the requested factor has no grid map, the next one scores A1 above 100
\* and F6 with text, and the level of a cell it does not name was looked up
C30_Witness ==
    /\ lookPc = "loop"
    /\ analysis.index = 0
    /\ Len(analysis.factors) = 2
    /\ analysis.factors[1].kind = "noscoring"
    /\ PickIndex(analysis) = 1
    /\ grid_map["A1"] = JInt(100)
    /\ grid_map["F6"] = JInt(0)
    /\ look = [cell |-> "D6", raised |-> FALSE, level |-> 0]

\* C31: for every level, min_intensity and intensity_factor the gain set by
\* set_level lies in [0, 1] and is at least clamp(min_intensity, 0, 1), and
\* of two consecutive calls with the same parameters the one with the
\* higher level does not set the lower gain.
C31_GainBoundedFlooredMonotone ==
    /\ [](level_args # NoLevelArgs =>
             /\ loop_gain \in 0..100000
             /\ loop_gain >= 1000 * Max(0, Min(100, level_args[2])))
    /\ [][(/\ level_args # NoLevelArgs
           /\ level_args'[2] = level_args[2]
           /\ level_args'[3] = level_args[3]
           /\ IsNumber(level_args[1]) /\ IsNumber(level_args'[1])
           /\ level_args'[1].v >= level_args[1].v)
              => (loop_gain' >= loop_gain)]_vars

\* set_level(100, min_intensity=0.2, intensity_factor=-0.5): the factor
\* counts as 0 and the gain is the floor
C31_Witness ==
    /\ level_args = <<JInt(100), 20, -50>>
    /\ loop_gain = 20000

\* C32: an error raised by the audio sink while the looping worker writes
\* frames does not escape the worker and does not end it: a worker in its
\* while loop leaves the loop only by returning, never by raising.
C32_SinkErrorDoesNotEndWorker ==
    [][\A w \in LoopWorkers :
          (lworkers[w] = "writing") => (lworkers'[w] # "raised")]_vars

\* a worker has found the credentials absent (without credentials no other
\* worker step can fail, the workers ending at line 228)
CredentialsFoundAbsent == ~api_key /\ anyFail

\* a speak() call passes the tests of lines 206-211
SpeakAccepted ==
    \E c \in Callers : callerPc[c] = "idle" /\ callerPc'[c] = "speak_lock"

\* a worker leaves _get_eleven_client with None (lines 155-158, 227-228)
CredentialsDiagnostic ==
    \E u \in Utterances : workers[u].pc = "client" /\ workers'[u].pc = "done"

\* C33: once a speech worker has found the synthesis credentials absent
\* the channel is disabled for the rest of the session: no later speak()
\* is accepted (none increments the generation or starts a worker), and
\* the diagnostic is not emitted a second time.
C33_CredentialsAbsentDisablesForSession ==
    /\ [][CredentialsFoundAbsent => ~SpeakAccepted]_vars
    /\ [][CredentialsFoundAbsent => ~CredentialsDiagnostic]_vars

\* C34: the table returned by pick_grid_map holds every one of the 36
\* labels A1..F6 and each of its values is an integer in [0, 100]: a value
\* below 0 becomes 0, a value above 100 becomes 100, a value that int()
\* rejects becomes 0, and a label missing from the grid map gets 0.
C34_TableCompleteAndInRange ==
    LET p == PickIndex(analysis)
        raw == analysis.factors[p + 1].map
    IN  (lookPc = "loop" /\ p # -1) =>
            /\ Labels \subseteq DOMAIN grid_map
            /\ \A k \in DOMAIN grid_map :
                   /\ grid_map[k].t = "int"
                   /\ grid_map[k].v \in {10 * n : n \in 0..100}
                   /\ (k \notin DOMAIN raw) => grid_map[k] = JInt(0)
                   /\ (k \in DOMAIN raw /\ IntRaises(raw[k]))
                          => grid_map[k] = JInt(0)
                   /\ (k \in DOMAIN raw /\ IsNumber(raw[k]) /\ raw[k].v < 0)
                          => grid_map[k] = JInt(0)
                   /\ (k \in DOMAIN raw /\ IsNumber(raw[k]) /\ raw[k].v > 1000)
                          => grid_map[k] = JInt(100)
                   /\ (k \in DOMAIN raw /\ raw[k].t = "int" /\ raw[k].v \in 0..1000)
                          => grid_map[k] = raw[k]

\* the requested factor scores A1 above 100 and F6 with text: the table
\* returned has 100, 0, and 0 for the labels the factor does not name
C34_Witness ==
    /\ lookPc = "loop"
    /\ analysis.index = 1
    /\ PickIndex(analysis) = 1
    /\ analysis.factors[2].map = [k \in RawKeys |->
                                     IF k = "A1" THEN JInt(150) ELSE JStr]
    /\ grid_map["A1"] = JInt(100)
    /\ grid_map["F6"] = JInt(0)
    /\ grid_map["C3"] = JInt(0)
    /\ DOMAIN grid_map = Labels

\* C35: every change of the integrated position is eventually followed by
\* a mouse_pos message, enqueued for sending, whose position is at least
\* as recent as the change; an iteration that consumes the moved flag
\* enqueues the position, so that the last movement is not lost when no
\* further movement follows.
C35_EveryMoveIsEventuallySent ==
    /\ [][(mouse_moved /\ ~mouse_moved') => (sentMoves' = nMoves)]_vars
    /\ \A k \in 1..MaxMoves : (nMoves = k) ~> (sentMoves >= k)

\* the channel is off because of a completed _toggle_tts and of nothing
\* else: no set-up or playback failure has happened in the run
ExplicitlyDisabled ==
    /\ ~tts_enabled
    /\ ~anyFail
    /\ callerPc[MainThread] = "idle"

EnqueuedAfterStop ==
    /\ sentAfterStop
    /\ send_q # <<>>
    /\ send_q[Len(send_q)] = nSent - 1

C38_HighlightInRangeAndWraps ==
    /\ [](Len(choices) > 0 => highlighted_index \in 0..(Len(choices) - 1))
    /\ [][\A d \in HighlightDeltas :
            (lastOp' = [op |-> "move_highlight", arg |-> d,
                        h0 |-> highlighted_index]
               /\ choosing /\ Len(choices) > 0)
            => /\ highlighted_index' \in 0..(Len(choices) - 1)
               /\ \E k \in -(MaxDelta + 1)..(MaxDelta + 1) :
                     highlighted_index' =
                        highlighted_index + d - k * Len(choices)]_vars

\* in choosing mode with three choices, move_highlight(-1) from index 0
\* has wrapped to index 2
C38_Witness ==
    /\ lastOp = [op |-> "move_highlight", arg |-> -1, h0 |-> 0]
    /\ choosing
    /\ Len(choices) = 3
    /\ highlighted_index = 2

\* C39: the chosen index is unset or an index of the current choice list,
\* after any sequence of calls of the controller.
C39_ChosenUnsetOrValid ==
    chosen_index = None \/ chosen_index[1] \in 0..(Len(choices) - 1)
====
